---- MODULE Spec2Model ----
(***************************************************************************)
(* A model of rlox, a tree-walking Lox interpreter: scanner, resolver,     *)
(* environments and interpreter.                                           *)
(*                                                                         *)
(* The resolver is a set of recursive operators that thread the Resolver   *)
(* struct through the calls, as the &mut self methods do.  The interpreter *)
(* is a state machine: the Rust call stack of execute/evaluate/call is the *)
(* variable `stack`, one frame per active method, and every action is one  *)
(* method running from one suspension point (a nested call) to the next.   *)
(* Environments (Rc<RefCell<Environment>>) are cells of the heap `envs`,   *)
(* an Rc being the index of its cell.                                      *)
(***************************************************************************)
EXTENDS Integers, Sequences, FiniteSets, TLC

VARIABLES
    scanner,      \* the Scanner struct: source, lexeme_start, lexeme_len, line
    scan,         \* Scanner::tokens in progress: pc, tokens, errors
    parser,       \* the Parser struct: current, tokens, errors
    input,        \* which input file run_file was given (a label of ast)
    ast,          \* the statements Parser::parse has collected, then the program
                  \* handed to Resolver::resolve
    stage,        \* position of run(): "scan", "parse", "resolve", "interpret", "done"
    result,       \* what run() returns, once stage = "done"
    envs,         \* heap of Environment cells
    environment,  \* Interpreter.environment: index into envs
    stack,        \* call stack of the interpreter's methods
    entry,        \* history: Interpreter.environment when each frame's method started
    ret,          \* value returned by the method that just finished
    out           \* lines written to stdout by println!

vars == <<scanner, scan, parser, input, ast, stage, result, envs, environment, stack, entry, ret, out>>

scanVars == <<scanner, scan, parser>>
runVars == <<input, ast, stage, result, envs, environment, stack, entry, ret, out>>

\* bounds of the model
MaxEnvs == 32
MaxNest == 2
\* the most arguments given to a call of the call_order family
MaxArgs == 3
MaxSrcLen == 3
MaxPieces == 2
\* the most tokens before the EOF token of a token vector of the tokens family
MaxTokens == 4
\* the most operators of an expression of the precedence family
MaxOperators == 3

\* the readings of SystemTime::now() a run may see, in seconds
ClockValues == {1, 2}

(***************************************************************************)
(* Option and Result                                                       *)
(***************************************************************************)
None == [some |-> FALSE]
Some(x) == [some |-> TRUE, v |-> x]

\* Ok(x) and Err(e) of a Result; Panic(m) is the process aborting inside the call
\* (an unwrap or expect on None, an arithmetic overflow in a debug build)
Ok(x) == [ok |-> TRUE, v |-> x]
Err(e) == [ok |-> FALSE, panic |-> FALSE, e |-> e]
Panic(m) == [ok |-> FALSE, panic |-> TRUE, e |-> m]

Unit == "()"

\* BTreeMap::new and BTreeMap::insert
EmptyMap == [x \in {} |-> None]
Insert(m, key, value) == [x \in DOMAIN m \cup {key} |-> IF x = key THEN value ELSE m[x]]

Last(s) == s[Len(s)]
Front(s) == SubSeq(s, 1, Len(s) - 1)

(***************************************************************************)
(* ast.rs: expressions and statements.  An unresolved Variable/Assign      *)
(* carries a name, a resolved one a ResolvedVariable.                      *)
(***************************************************************************)
Binary(loc, l, o, r) == [k |-> "Binary", location |-> loc, l |-> l, o |-> o, r |-> r]
Call(loc, f, p) == [k |-> "Call", location |-> loc, f |-> f, p |-> p]
Grouping(loc, e) == [k |-> "Grouping", location |-> loc, e |-> e]
Literal(loc, l) == [k |-> "Literal", location |-> loc, l |-> l]
Unary(loc, o, r) == [k |-> "Unary", location |-> loc, o |-> o, r |-> r]
Variable(loc, v) == [k |-> "Variable", location |-> loc, v |-> v]
Assign(loc, v, e) == [k |-> "Assign", location |-> loc, v |-> v, e |-> e]

ResolvedVariable(name, hops) == [name |-> name, hops |-> hops]

Stmt_Expression(e) == [k |-> "Expression", e |-> e]
Stmt_Function(name, params, body) == [k |-> "Function", name |-> name, params |-> params, body |-> body]
Stmt_Print(e) == [k |-> "Print", e |-> e]
Stmt_Return(e) == [k |-> "Return", e |-> e]
Stmt_Var(name, e) == [k |-> "Var", name |-> name, e |-> e]
Stmt_While(c, b) == [k |-> "While", c |-> c, b |-> b]
Stmt_Block(s) == [k |-> "Block", s |-> s]
Stmt_If(c, t, e) == [k |-> "If", c |-> c, t |-> t, e |-> e]

\* token.rs Literal, as the interpreter's iteration uses it (Boolean carries its value)
Lit_String(s) == [t |-> "String", v |-> s]
Lit_Number(n) == [t |-> "Number", v |-> n]
Lit_Boolean(b) == [t |-> "Boolean", v |-> b]
Lit_Nil == [t |-> "Nil"]

(***************************************************************************)
(* resolver.rs.  Every method takes the Resolver `self` and returns        *)
(* [self |-> the Resolver afterwards, res |-> its ResolveResult].          *)
(* resolve_expr and the methods under it never change self (resolve_local  *)
(* takes &mut self but only reads), so they return the result alone.       *)
(***************************************************************************)
Resolver_new == [scopes |-> <<>>, current_function |-> None]

ResolveError(loc, kind) == [location |-> loc, value |-> kind]

\* a variant of declare that looks for the name in every scope, not only the innermost
declare_in_any_scope(self, name) ==
    IF Len(self.scopes) > 0
    THEN IF \E i \in 1..Len(self.scopes) : name \in DOMAIN self.scopes[i]
         THEN [self |-> self,
               res |-> Err(<<ResolveError(<<0, 0>>, "VariableRedeclaration")>>)]
         ELSE [self |-> [self EXCEPT !.scopes[Len(self.scopes)] =
                                         Insert(Last(self.scopes), name, "Declared")],
               res |-> Ok(Unit)]
    ELSE [self |-> self, res |-> Ok(Unit)]

declare(self, name) ==
    IF Len(self.scopes) > 0
    THEN LET current == Last(self.scopes) IN
         IF name \in DOMAIN current
         THEN [self |-> self,
               res |-> Err(<<ResolveError(<<0, 0>>, "VariableRedeclaration")>>)]
         ELSE [self |-> [self EXCEPT !.scopes[Len(self.scopes)] = Insert(current, name, "Declared")],
               res |-> Ok(Unit)]
    ELSE [self |-> self, res |-> Ok(Unit)]

define(self, name) ==
    IF Len(self.scopes) > 0
    THEN [self EXCEPT !.scopes[Len(self.scopes)] = Insert(Last(self.scopes), name, "Defined")]
    ELSE self

begin_scope(self) == [self EXCEPT !.scopes = Append(@, EmptyMap)]

\* a variant of end_scope that leaves the innermost scope on the stack
end_scope_keeping(self) == self

end_scope(self) == [self EXCEPT !.scopes = IF Len(@) > 0 THEN Front(@) ELSE @]

\* for i in (0..scopes.len()).rev(): the innermost scope holding name
RECURSIVE resolve_local_from(_, _, _)
resolve_local_from(self, name, i) ==
    IF i = 0 THEN ResolvedVariable(name, None)
    ELSE IF name \in DOMAIN self.scopes[i]
         THEN ResolvedVariable(name, Some(Len(self.scopes) - i))
         ELSE resolve_local_from(self, name, i - 1)

resolve_local(self, name) == resolve_local_from(self, name, Len(self.scopes))

\* a variant of resolve_variable_expr without the test for a Declared name
resolve_variable_expr_unchecked(self, location, name) ==
    Ok(Variable(location, resolve_local(self, name)))

resolve_variable_expr(self, location, name) ==
    IF /\ Len(self.scopes) > 0
       /\ name \in DOMAIN Last(self.scopes)
       /\ Last(self.scopes)[name] = "Declared"
    THEN Err(<<ResolveError(location, "VariableOwnInitializer")>>)
    ELSE Ok(Variable(location, resolve_local(self, name)))

RECURSIVE resolve_expr(_, _)
RECURSIVE resolve_exprs(_, _)

\* In the methods below `LET then(x) == rest IN then(call)` is `let x = call; rest`:
\* the call is made once and its result named.
resolve_assign_expr(self, location, name, expr) ==
    LET then(e) ==
            IF ~e.ok THEN e
            ELSE Ok(Assign(location, resolve_local(self, name), e.v))
    IN  then(resolve_expr(self, expr))

resolve_call_expr(self, location, callee, params) ==
    LET then(c) ==
            IF ~c.ok THEN c
            ELSE LET collected(p) == IF ~p.ok THEN p ELSE Ok(Call(location, c.v, p.v))
                 IN  collected(resolve_exprs(self, params))
    IN  then(resolve_expr(self, callee))

\* params.into_iter().map(|p| self.resolve_expr(p)).collect(): stops at the first Err
resolve_exprs(self, params) ==
    IF params = <<>> THEN Ok(<<>>)
    ELSE LET first(h) ==
                 IF ~h.ok THEN h
                 ELSE LET rest(t) == IF ~t.ok THEN t ELSE Ok(<<h.v>> \o t.v)
                      IN  rest(resolve_exprs(self, Tail(params)))
         IN  first(resolve_expr(self, Head(params)))

resolve_expr(self, expr) ==
    CASE expr.k = "Binary" ->
            LET left(l) ==
                    IF ~l.ok THEN l
                    ELSE LET right(r) ==
                                 IF ~r.ok THEN r
                                 ELSE Ok(Binary(expr.location, l.v, expr.o, r.v))
                         IN  right(resolve_expr(self, expr.r))
            IN  left(resolve_expr(self, expr.l))
      [] expr.k = "Call" -> resolve_call_expr(self, expr.location, expr.f, expr.p)
      [] expr.k = "Grouping" ->
            LET then(e) == IF ~e.ok THEN e ELSE Ok(Grouping(expr.location, e.v))
            IN  then(resolve_expr(self, expr.e))
      [] expr.k = "Literal" -> Ok(Literal(expr.location, expr.l))
      [] expr.k = "Unary" ->
            LET then(r) == IF ~r.ok THEN r ELSE Ok(Unary(expr.location, expr.o, r.v))
            IN  then(resolve_expr(self, expr.r))
      [] expr.k = "Variable" -> resolve_variable_expr(self, expr.location, expr.v)
      [] expr.k = "Assign" -> resolve_assign_expr(self, expr.location, expr.v, expr.e)

\* e.map(|e| self.resolve_expr(e)).transpose()
resolve_opt_expr(self, e) ==
    IF ~e.some THEN Ok(None)
    ELSE LET then(r) == IF ~r.ok THEN r ELSE Ok(Some(r.v))
         IN  then(resolve_expr(self, e.v))

RECURSIVE resolve_statement(_, _)
RECURSIVE resolve_statements(_, _, _, _)
RECURSIVE resolve_params(_, _)

\* the for loop of resolve_block_statement: Ok pushes the statement, Err extends errors
resolve_statements(self, body, statements, errs) ==
    IF body = <<>>
    THEN [self |-> self, statements |-> statements, errors |-> errs]
    ELSE LET then(r) ==
                 IF r.res.ok
                 THEN resolve_statements(r.self, Tail(body), Append(statements, r.res.v), errs)
                 ELSE resolve_statements(r.self, Tail(body), statements, errs \o r.res.e)
         IN  then(resolve_statement(self, Head(body)))

resolve_block_statement(self, make_scope, body) ==
    LET then(l) ==
            [self |-> IF make_scope THEN end_scope(l.self) ELSE l.self,
             res |-> IF l.errors = <<>> THEN Ok(l.statements) ELSE Err(l.errors)]
    IN  then(resolve_statements(IF make_scope THEN begin_scope(self) ELSE self,
                                body, <<>>, <<>>))

\* for param in params { self.declare(param)?; self.define(param); }
resolve_params(self, params) ==
    IF params = <<>> THEN [self |-> self, res |-> Ok(Unit)]
    ELSE LET then(d) ==
                 IF ~d.res.ok THEN d
                 ELSE resolve_params(define(d.self, Head(params)), Tail(params))
         IN  then(declare(self, Head(params)))

\* the closure of resolve_function_statement: the parameters, then the body
resolve_function_inner(self, params, body) ==
    LET then(p) == IF ~p.res.ok THEN p ELSE resolve_block_statement(p.self, TRUE, body)
    IN  then(resolve_params(self, params))

resolve_function_statement(self, name, params, body, function_type) ==
    LET declared(d) ==
            IF ~d.res.ok THEN d
            ELSE \* previous_type is s1.current_function, swapped back in after end_scope
                 LET defined(s1) ==
                         LET inner(c) ==
                                 [self |-> [end_scope(c.self) EXCEPT
                                                !.current_function = s1.current_function],
                                  res |-> IF c.res.ok
                                          THEN Ok(Stmt_Function(name, params, c.res.v))
                                          ELSE c.res]
                         IN  inner(resolve_function_inner(
                                       begin_scope([s1 EXCEPT !.current_function =
                                                                  Some(function_type)]),
                                       params, body))
                 IN  defined(define(d.self, name))
    IN  declared(declare(self, name))

resolve_if_statement(self, condition, then_branch, else_branch) ==
    LET cond(c) ==
            IF ~c.ok THEN [self |-> self, res |-> c]
            ELSE LET then(t) ==
                         IF ~t.res.ok THEN t
                         ELSE IF ~else_branch.some
                         THEN [self |-> t.self, res |-> Ok(Stmt_If(c.v, t.res.v, None))]
                         ELSE LET else(e) ==
                                      IF ~e.res.ok THEN e
                                      ELSE [self |-> e.self,
                                            res |-> Ok(Stmt_If(c.v, t.res.v, Some(e.res.v)))]
                              IN  else(resolve_statement(t.self, else_branch.v))
                 IN  then(resolve_statement(self, then_branch))
    IN  cond(resolve_expr(self, condition))

resolve_var_statement(self, name, expr) ==
    LET declared(d) ==
            IF ~d.res.ok THEN d
            ELSE LET then(e) ==
                         IF ~e.ok THEN [self |-> d.self, res |-> e]
                         ELSE [self |-> define(d.self, name), res |-> Ok(Stmt_Var(name, e.v))]
                 IN  then(resolve_opt_expr(d.self, expr))
    IN  declared(declare(self, name))

resolve_while_statement(self, condition, body) ==
    LET cond(c) ==
            IF ~c.ok THEN [self |-> self, res |-> c]
            ELSE LET then(b) ==
                         IF ~b.res.ok THEN b
                         ELSE [self |-> b.self, res |-> Ok(Stmt_While(c.v, b.res.v))]
                 IN  then(resolve_statement(self, body))
    IN  cond(resolve_expr(self, condition))

resolve_statement(self, statement) ==
    CASE statement.k = "Expression" ->
            LET then(e) ==
                    [self |-> self, res |-> IF e.ok THEN Ok(Stmt_Expression(e.v)) ELSE e]
            IN  then(resolve_expr(self, statement.e))
      [] statement.k = "Function" ->
            resolve_function_statement(self, statement.name, statement.params,
                                       statement.body, "Function")
      [] statement.k = "Print" ->
            LET then(e) == [self |-> self, res |-> IF e.ok THEN Ok(Stmt_Print(e.v)) ELSE e]
            IN  then(resolve_expr(self, statement.e))
      [] statement.k = "Return" ->
            IF ~self.current_function.some
            THEN [self |-> self, res |-> Err(<<ResolveError(<<0, 0>>, "TopLevelReturn")>>)]
            ELSE LET then(e) ==
                         [self |-> self, res |-> IF e.ok THEN Ok(Stmt_Return(e.v)) ELSE e]
                 IN  then(resolve_opt_expr(self, statement.e))
      [] statement.k = "Var" -> resolve_var_statement(self, statement.name, statement.e)
      [] statement.k = "While" -> resolve_while_statement(self, statement.c, statement.b)
      [] statement.k = "Block" ->
            LET then(b) ==
                    [self |-> b.self,
                     res |-> IF b.res.ok THEN Ok(Stmt_Block(b.res.v)) ELSE b.res]
            IN  then(resolve_block_statement(self, TRUE, statement.s))
      [] statement.k = "If" ->
            resolve_if_statement(self, statement.c, statement.t, statement.e)

resolve(self, program) == resolve_block_statement(self, FALSE, program)

(***************************************************************************)
(* value.rs (interpreter iteration): Value, Type, LoxCallable.  A Number   *)
(* is an f32; the programs of this model stay within small integers, which *)
(* f32 represents exactly, so a Number is modelled by an integer.          *)
(***************************************************************************)
Value_String(s) == [t |-> "String", v |-> s]
Value_Number(n) == [t |-> "Number", v |-> n]
Value_Boolean(b) == [t |-> "Boolean", v |-> b]
Value_Callable(c) == [t |-> "Callable", v |-> c]
Value_Nil == [t |-> "Nil"]

LoxFunction(name, params, body, closure) ==
    [kind |-> "LoxFunction", name |-> name, params |-> params, body |-> body, closure |-> closure]
NativeFunction(name, arity, fun) ==
    [kind |-> "NativeFunction", name |-> name, arity |-> arity, fun |-> fun]

value_type(value) == value.t

TypeError(expected, actual) == [k |-> "TypeError", expected |-> expected, actual |-> actual]
TypeErrorMultiple(expected, actual) ==
    [k |-> "TypeErrorMultiple", expected |-> expected, actual |-> actual]
UndefinedVariable(name) == [k |-> "UndefinedVariable", name |-> name]
WrongArgsNum(got, expected) == [k |-> "WrongArgsNum", got |-> got, expected |-> expected]
Returning(value) == [k |-> "Returning", v |-> value]

RuntimeError(loc, kind) == [location |-> loc, value |-> kind]

\* impl WithLocation for Result<T, E>
with_location(r, loc) == IF r.ok \/ r.panic THEN r ELSE Err(RuntimeError(loc, r.e))

into_string(value) ==
    CASE value.t = "String" -> Ok(value.v)
      [] value.t = "Number" -> Ok(ToString(value.v))
      [] OTHER -> Err(TypeError("String", value_type(value)))

into_number(value) ==
    IF value.t = "Number" THEN Ok(value.v) ELSE Err(TypeError("Number", value_type(value)))

into_boolean(value) ==
    IF value.t = "Boolean" THEN Ok(value.v) ELSE Err(TypeError("Boolean", value_type(value)))

into_callable(value) ==
    IF value.t = "Callable" THEN Ok(value.v) ELSE Err(TypeError("Callable", value_type(value)))

\* impl PartialEq for LoxCallable
LoxCallable_eq(c1, c2) ==
    CASE c1.kind = "LoxFunction" /\ c2.kind = "LoxFunction" -> c1.name = c2.name
      [] c1.kind = "NativeFunction" /\ c2.kind = "NativeFunction" -> c1.fun = c2.fun
      [] OTHER -> FALSE

\* #[derive(PartialEq)] for Value
Value_eq(a, b) ==
    /\ a.t = b.t
    /\ CASE a.t = "Nil" -> TRUE
         [] a.t = "Callable" -> LoxCallable_eq(a.v, b.v)
         [] OTHER -> a.v = b.v

arity(callable) ==
    IF callable.kind = "LoxFunction" THEN Len(callable.params) ELSE callable.arity

\* impl Display for Value (an integral Number prints as `n as i32`)
Display(value) ==
    CASE value.t = "String" -> value.v
      [] value.t = "Number" -> ToString(value.v)
      [] value.t = "Boolean" -> IF value.v THEN "true" ELSE "false"
      [] value.t = "Callable" ->
            IF value.v.kind = "NativeFunction"
            THEN "<native function " \o value.v.name \o ">"
            ELSE "<function " \o value.v.name \o ">"
      [] value.t = "Nil" -> "nil"

\* {:?} of a Vec<String>
RECURSIVE DebugStrings(_)
DebugStrings(names) ==
    IF names = <<>> THEN ""
    ELSE "\"" \o Head(names) \o "\"" \o (IF Len(names) > 1 THEN ", " ELSE "")
         \o DebugStrings(Tail(names))

\* #[derive(Debug)] for Value and impl Debug for LoxCallable
DebugFmt(value) ==
    CASE value.t = "String" -> "String(\"" \o value.v \o "\")"
      [] value.t = "Number" -> "Number(" \o ToString(value.v) \o ".0)"
      [] value.t = "Boolean" -> "Boolean(" \o (IF value.v THEN "true" ELSE "false") \o ")"
      [] value.t = "Callable" ->
            IF value.v.kind = "NativeFunction"
            THEN "Callable(NativeFunction(\"" \o value.v.name \o "\", "
                 \o ToString(value.v.arity) \o ", \"<native code>\"))"
            ELSE "Callable(LoxFunction { name: \"" \o value.v.name \o "\", params: ["
                 \o DebugStrings(value.v.params) \o "] })"
      [] value.t = "Nil" -> "Nil"

(***************************************************************************)
(* environment.rs.  h is the heap of cells, e the index of the cell that   *)
(* is `self`.                                                              *)
(***************************************************************************)
Environment_new(h) ==
    Append(h, [enclosing |-> None, values |-> EmptyMap])

\* a variant of new_inside that makes the environment without a parent
new_inside_detached(h, enclosing) ==
    Append(h, [enclosing |-> None, values |-> EmptyMap])

new_inside(h, enclosing) ==
    Append(h, [enclosing |-> Some(enclosing), values |-> EmptyMap])

pop(h, e) == h[e].enclosing

Environment_define(h, e, name, value) ==
    [h EXCEPT ![e].values = Insert(@, name, value)]

\* self.values.get(&name).cloned()
values_get(h, e, name) ==
    IF name \in DOMAIN h[e].values THEN Some(h[e].values[name]) ELSE None

\* a variant of Environment::get that ignores hops and takes the nearest binding of the
\* name up the chain of enclosing environments (dynamic lookup)
RECURSIVE Environment_get_dynamic(_, _, _)
Environment_get_dynamic(h, e, variable) ==
    IF variable.name \in DOMAIN h[e].values THEN Ok(h[e].values[variable.name])
    ELSE IF h[e].enclosing.some THEN Environment_get_dynamic(h, h[e].enclosing.v, variable)
    ELSE Err(UndefinedVariable(variable.name))

RECURSIVE Environment_get(_, _, _)
Environment_get(h, e, variable) ==
    LET hops == variable.hops
        found ==
            IF hops.some /\ hops.v = 0 THEN Ok(values_get(h, e, variable.name))
            ELSE IF hops.some
            THEN IF ~h[e].enclosing.some THEN Panic("correctly calculated hops")
                 ELSE LET r == Environment_get(h, h[e].enclosing.v,
                                               ResolvedVariable(variable.name, Some(hops.v - 1)))
                      IN  IF r.ok THEN Ok(Some(r.v)) ELSE IF r.panic THEN r ELSE Ok(None)
            ELSE IF h[e].enclosing.some
            THEN LET r == Environment_get(h, h[e].enclosing.v, variable)
                 IN  IF r.ok THEN Ok(Some(r.v)) ELSE IF r.panic THEN r ELSE Ok(None)
            ELSE Ok(values_get(h, e, variable.name))
    IN  IF ~found.ok THEN found
        ELSE IF found.v.some THEN Ok(found.v.v)
        ELSE Err(UndefinedVariable(variable.name))

\* a variant of Environment::assign that ignores hops and writes the binding into the
\* environment it is called on
Environment_assign_current(h, e, variable, value) ==
    [h |-> Environment_define(h, e, variable.name, value), res |-> Ok(Unit)]

\* returns [h |-> the heap afterwards, res |-> Result<(), RuntimeErrorKind>]
RECURSIVE Environment_assign(_, _, _, _)
Environment_assign(h, e, variable, value) ==
    LET hops == variable.hops IN
    IF hops.some /\ hops.v = 0
    THEN [h |-> Environment_define(h, e, variable.name, value), res |-> Ok(Unit)]
    ELSE IF hops.some
    THEN IF ~h[e].enclosing.some
         THEN [h |-> h, res |-> Panic("correctly calculated hops")]
         ELSE Environment_assign(h, h[e].enclosing.v,
                                 ResolvedVariable(variable.name, Some(hops.v - 1)), value)
    ELSE IF h[e].enclosing.some
    THEN Environment_assign(h, h[e].enclosing.v, variable, value)
    ELSE [h |-> Environment_define(h, e, variable.name, value), res |-> Ok(Unit)]

(***************************************************************************)
(* interpreter.rs.  A frame of `stack` is one active method: fn names it,  *)
(* pc is the nested call it waits for ("start": not yet run), the other    *)
(* fields are its arguments and locals.  `ret` is the Result the method    *)
(* that just returned hands to the frame below it, and entry[i] is the     *)
(* environment that was current when the method of frame i started.        *)
(***************************************************************************)
NoRet == [pending |-> TRUE]
Returned == "ok" \in DOMAIN ret

Top == Last(stack)
Running == stage = "interpret" /\ stack # <<>>

Frame_execute(statement) == [fn |-> "execute", pc |-> "start", statement |-> statement]
Frame_evaluate(expression) == [fn |-> "evaluate", pc |-> "start", expression |-> expression]

\* the running method returns r to its caller
PopReturn(r) ==
    /\ stack' = Front(stack)
    /\ entry' = Front(entry)
    /\ ret' = r
    /\ UNCHANGED <<stage, result>>

\* the running method, left as frame k, calls the method of frame c with env current
PushCall(k, c, env) ==
    /\ stack' = Append(Append(Front(stack), k), c)
    /\ entry' = Append(entry, env)
    /\ ret' = NoRet
    /\ UNCHANGED <<stage, result>>

\* the running method ends by calling the method of frame c and returning its result
Goto(c) ==
    /\ stack' = Append(Front(stack), c)
    /\ entry' = Append(Front(entry), environment)
    /\ ret' = NoRet
    /\ UNCHANGED <<stage, result>>

\* run() returns r to run_file, or the process aborts with the panic r
Finish(r) ==
    /\ stage' = "done"
    /\ result' = r
    /\ stack' = <<>>
    /\ entry' = <<>>
    /\ ret' = NoRet

\* r is returned to the caller, unless it is a panic, which unwinds the whole process
Deliver(r) == IF ~r.ok /\ r.panic THEN Finish(r) ELSE PopReturn(r)

LoxError_Resolve(e) == [k |-> "Resolve", e |-> e]
LoxError_Runtime(e) == [k |-> "Runtime", e |-> e]

RECURSIVE map_Resolve(_)
map_Resolve(errs) ==
    IF errs = <<>> THEN <<>> ELSE <<LoxError_Resolve(Head(errs))>> \o map_Resolve(Tail(errs))

\* Interpreter::new: the globals hold the two native functions
Interpreter_new ==
    LET h0 == Environment_new(<<>>)
        h1 == Environment_define(h0, 1, "debug",
                                 Value_Callable(NativeFunction("debug", 1, "debug")))
        h2 == Environment_define(h1, 1, "clock",
                                 Value_Callable(NativeFunction("clock", 0, "clock")))
    IN  [envs |-> h2, environment |-> 1]

\* run(), from the resolver on: resolve(ast)?, then interpreter.interpret(ast)
Resolve ==
    /\ stage = "resolve"
    /\ LET r == resolve(Resolver_new, ast).res IN
       IF r.ok
       THEN /\ stage' = "interpret"
            /\ stack' = <<[fn |-> "interpret", pc |-> "loop", program |-> r.v]>>
            /\ entry' = <<environment>>
            /\ ret' = NoRet
            /\ result' = result
       ELSE Finish(Err(map_Resolve(r.e)))
    /\ UNCHANGED <<scanVars, input, ast, envs, environment, out>>

\* a variant of interpret that goes on with the next statement after an error
interpret_next_after_error ==
    /\ Running /\ Top.fn = "interpret"
    /\ IF Top.program = <<>>
       THEN Finish(IF Returned /\ ~ret.ok THEN Err(<<LoxError_Runtime(ret.e)>>) ELSE Ok(Unit))
       ELSE PushCall([Top EXCEPT !.program = Tail(@)], Frame_execute(Head(Top.program)),
                     environment)
    /\ UNCHANGED <<scanVars, input, ast, envs, environment, out>>

\* for statement in program { self.execute(statement)?; } Ok(())
interpret ==
    /\ Running /\ Top.fn = "interpret"
    /\ IF Returned /\ ~ret.ok
       THEN Finish(Err(<<LoxError_Runtime(ret.e)>>))
       ELSE IF Top.program = <<>>
       THEN Finish(Ok(Unit))
       ELSE PushCall([Top EXCEPT !.program = Tail(@)], Frame_execute(Head(Top.program)),
                     environment)
    /\ UNCHANGED <<scanVars, input, ast, envs, environment, out>>

execute ==
    /\ Running /\ Top.fn = "execute"
    /\ LET s == Top.statement IN
       CASE Top.pc = "start" /\ s.k = "Expression" ->
               /\ PushCall([Top EXCEPT !.pc = "Expression"], Frame_evaluate(s.e), environment)
               /\ out' = out
         [] Top.pc = "start" /\ s.k = "Print" ->
               /\ PushCall([Top EXCEPT !.pc = "Print"], Frame_evaluate(s.e), environment)
               /\ out' = out
         [] Top.pc = "start" /\ s.k = "Var" ->
               /\ Goto([fn |-> "execute_statement_var", pc |-> "start",
                        name |-> s.name, value |-> s.e])
               /\ out' = out
         [] Top.pc = "start" /\ s.k = "Block" ->
               /\ Goto([fn |-> "execute_block_statement", pc |-> "start", statements |-> s.s])
               /\ out' = out
         [] Top.pc = "start" /\ s.k = "If" ->
               /\ Goto([fn |-> "execute_if", pc |-> "start", condition |-> s.c,
                        then_branch |-> s.t, else_branch |-> s.e])
               /\ out' = out
         [] Top.pc = "start" /\ s.k = "While" ->
               /\ Goto([fn |-> "execute_while", pc |-> "start", condition |-> s.c, body |-> s.b])
               /\ out' = out
         [] Top.pc = "start" /\ s.k = "Function" ->
               /\ Goto([fn |-> "execute_fun", pc |-> "start", name |-> s.name,
                        params |-> s.params, body |-> s.body])
               /\ out' = out
         [] Top.pc = "start" /\ s.k = "Return" ->
               /\ Goto([fn |-> "execute_return", pc |-> "start", expression |-> s.e])
               /\ out' = out
         [] Top.pc = "Expression" ->
               /\ PopReturn(IF ret.ok THEN Ok(Unit) ELSE ret)
               /\ out' = out
         [] Top.pc = "Print" ->
               IF ret.ok
               THEN /\ out' = Append(out, Display(ret.v))
                    /\ PopReturn(Ok(Unit))
               ELSE /\ out' = out
                    /\ PopReturn(ret)
    /\ UNCHANGED <<scanVars, input, ast, envs, environment>>

execute_statement_var ==
    /\ Running /\ Top.fn = "execute_statement_var"
    /\ CASE Top.pc = "start" /\ Top.value.some ->
               /\ PushCall([Top EXCEPT !.pc = "value"], Frame_evaluate(Top.value.v), environment)
               /\ envs' = envs
         [] Top.pc = "start" /\ ~Top.value.some ->
               /\ envs' = Environment_define(envs, environment, Top.name, Value_Nil)
               /\ PopReturn(Ok(Unit))
         [] Top.pc = "value" ->
               IF ~ret.ok
               THEN /\ PopReturn(ret)
                    /\ envs' = envs
               ELSE /\ envs' = Environment_define(envs, environment, Top.name, ret.v)
                    /\ PopReturn(Ok(Unit))
    /\ UNCHANGED <<scanVars, input, ast, environment, out>>

\* a variant of execute_block_statement that returns early on Err:
\*   self.execute_block(statements)?; before the environment is put back
execute_block_statement_early_return ==
    /\ Running /\ Top.fn = "execute_block_statement"
    /\ CASE Top.pc = "start" ->
               /\ Len(envs) < MaxEnvs
               /\ envs' = new_inside(envs, environment)
               /\ environment' = Len(envs) + 1
               /\ PushCall([Top EXCEPT !.pc = "res"],
                           [fn |-> "execute_block", pc |-> "loop", statements |-> Top.statements],
                           Len(envs) + 1)
         [] Top.pc = "res" ->
               /\ envs' = envs
               /\ environment' = IF ret.ok THEN pop(envs, environment).v ELSE environment
               /\ PopReturn(ret)
    /\ UNCHANGED <<scanVars, input, ast, out>>

execute_block_statement ==
    /\ Running /\ Top.fn = "execute_block_statement"
    /\ CASE Top.pc = "start" ->
               /\ Len(envs) < MaxEnvs
               /\ envs' = new_inside(envs, environment)
               /\ environment' = Len(envs) + 1
               /\ PushCall([Top EXCEPT !.pc = "res"],
                           [fn |-> "execute_block", pc |-> "loop", statements |-> Top.statements],
                           Len(envs) + 1)
         [] Top.pc = "res" ->
               /\ envs' = envs
               /\ IF pop(envs, environment).some
                  THEN /\ environment' = pop(envs, environment).v
                       /\ PopReturn(ret)
                  ELSE /\ environment' = environment
                       /\ Finish(Panic("called Option::unwrap() on a None value"))
    /\ UNCHANGED <<scanVars, input, ast, out>>

\* a variant of execute_block that drops the result of each statement:
\*   let _ = self.execute(statement); instead of self.execute(statement)?;
execute_block_ignoring_result ==
    /\ Running /\ Top.fn = "execute_block"
    /\ IF Top.statements = <<>>
       THEN PopReturn(Ok(Unit))
       ELSE PushCall([Top EXCEPT !.statements = Tail(@)],
                     Frame_execute(Head(Top.statements)), environment)
    /\ UNCHANGED <<scanVars, input, ast, envs, environment, out>>

execute_block ==
    /\ Running /\ Top.fn = "execute_block"
    /\ IF Returned /\ ~ret.ok
       THEN PopReturn(ret)
       ELSE IF Top.statements = <<>>
       THEN PopReturn(Ok(Unit))
       ELSE PushCall([Top EXCEPT !.statements = Tail(@)],
                     Frame_execute(Head(Top.statements)), environment)
    /\ UNCHANGED <<scanVars, input, ast, envs, environment, out>>

execute_if ==
    /\ Running /\ Top.fn = "execute_if"
    /\ CASE Top.pc = "start" ->
               PushCall([Top EXCEPT !.pc = "condition"], Frame_evaluate(Top.condition),
                        environment)
         [] Top.pc = "condition" ->
               IF ~ret.ok THEN PopReturn(ret)
               ELSE LET c == with_location(into_boolean(ret.v), Top.condition.location) IN
                    IF ~c.ok THEN PopReturn(c)
                    ELSE IF c.v
                    THEN PushCall([Top EXCEPT !.pc = "branch"], Frame_execute(Top.then_branch),
                                  environment)
                    ELSE IF Top.else_branch.some
                    THEN PushCall([Top EXCEPT !.pc = "branch"],
                                  Frame_execute(Top.else_branch.v), environment)
                    ELSE PopReturn(Ok(Unit))
         [] Top.pc = "branch" ->
               PopReturn(IF ret.ok THEN Ok(Unit) ELSE ret)
    /\ UNCHANGED <<scanVars, input, ast, envs, environment, out>>

execute_while ==
    /\ Running /\ Top.fn = "execute_while"
    /\ CASE Top.pc = "start" ->
               PushCall([Top EXCEPT !.pc = "condition"], Frame_evaluate(Top.condition),
                        environment)
         [] Top.pc = "condition" ->
               IF ~ret.ok THEN PopReturn(ret)
               ELSE LET c == with_location(into_boolean(ret.v), Top.condition.location) IN
                    IF ~c.ok THEN PopReturn(c)
                    ELSE IF c.v
                    THEN PushCall([Top EXCEPT !.pc = "body"], Frame_execute(Top.body),
                                  environment)
                    ELSE PopReturn(Ok(Unit))
         [] Top.pc = "body" ->
               IF ~ret.ok THEN PopReturn(ret)
               ELSE PushCall([Top EXCEPT !.pc = "condition"], Frame_evaluate(Top.condition),
                             environment)
    /\ UNCHANGED <<scanVars, input, ast, envs, environment, out>>

execute_fun ==
    /\ Running /\ Top.fn = "execute_fun"
    /\ LET function == Value_Callable(LoxFunction(Top.name, Top.params, Top.body, environment))
       IN  envs' = Environment_define(envs, environment, Top.name, function)
    /\ PopReturn(Ok(Unit))
    /\ UNCHANGED <<scanVars, input, ast, environment, out>>

execute_return ==
    /\ Running /\ Top.fn = "execute_return"
    /\ CASE Top.pc = "start" /\ Top.expression.some ->
               PushCall([Top EXCEPT !.pc = "value"], Frame_evaluate(Top.expression.v),
                        environment)
         [] Top.pc = "start" /\ ~Top.expression.some ->
               PopReturn(Err(RuntimeError(<<0, 0>>, Returning(Value_Nil))))
         [] Top.pc = "value" ->
               IF ~ret.ok THEN PopReturn(ret)
               ELSE PopReturn(Err(RuntimeError(<<0, 0>>, Returning(ret.v))))
    /\ UNCHANGED <<scanVars, input, ast, envs, environment, out>>

evaluate_literal(literal) == literal

evaluate ==
    /\ Running /\ Top.fn = "evaluate"
    /\ LET x == Top.expression
           loc == x.location
       IN  CASE x.k = "Literal" -> PopReturn(Ok(evaluate_literal(x.l)))
             [] x.k = "Assign" ->
                   Goto([fn |-> "evaluate_assign", pc |-> "start", location |-> loc,
                         variable |-> x.v, expression |-> x.e])
             [] x.k = "Grouping" -> Goto(Frame_evaluate(x.e))
             [] x.k = "Unary" ->
                   Goto([fn |-> "evaluate_unary", pc |-> "start", location |-> loc,
                         o |-> x.o, r |-> x.r])
             [] x.k = "Binary" ->
                   Goto([fn |-> "evaluate_binary", pc |-> "start", location |-> loc,
                         left |-> x.l, operator |-> x.o, right |-> x.r])
             [] x.k = "Variable" ->
                   Deliver(with_location(Environment_get(envs, environment, x.v), loc))
             [] x.k = "Call" ->
                   Goto([fn |-> "evaluate_call", pc |-> "start", location |-> loc,
                         callee |-> x.f, args_expressions |-> x.p])
    /\ UNCHANGED <<scanVars, input, ast, envs, environment, out>>

evaluate_assign ==
    /\ Running /\ Top.fn = "evaluate_assign"
    /\ CASE Top.pc = "start" ->
               /\ PushCall([Top EXCEPT !.pc = "value"], Frame_evaluate(Top.expression),
                           environment)
               /\ envs' = envs
         [] Top.pc = "value" ->
               IF ~ret.ok
               THEN /\ PopReturn(ret)
                    /\ envs' = envs
               ELSE LET a == Environment_assign(envs, environment, Top.variable, ret.v)
                        r == with_location(a.res, Top.location)
                    IN  /\ envs' = a.h
                        /\ Deliver(IF r.ok THEN Ok(ret.v) ELSE r)
    /\ UNCHANGED <<scanVars, input, ast, environment, out>>

evaluate_unary ==
    /\ Running /\ Top.fn = "evaluate_unary"
    /\ CASE Top.pc = "start" ->
               PushCall([Top EXCEPT !.pc = "right"], Frame_evaluate(Top.r), environment)
         [] Top.pc = "right" ->
               IF ~ret.ok THEN PopReturn(ret)
               ELSE IF Top.o = "Minus"
               THEN LET n == with_location(into_number(ret.v), Top.location) IN
                    PopReturn(IF n.ok THEN Ok(Value_Number(-n.v)) ELSE n)
               ELSE LET b == with_location(into_boolean(ret.v), Top.location) IN
                    PopReturn(IF b.ok THEN Ok(Value_Boolean(~b.v)) ELSE b)
    /\ UNCHANGED <<scanVars, input, ast, envs, environment, out>>

\* left.into_number()? and right.into_number()?: both numbers, or the first TypeError
numbers(left, right) ==
    IF ~into_number(left).ok THEN into_number(left)
    ELSE IF ~into_number(right).ok THEN into_number(right)
    ELSE Ok([l |-> into_number(left).v, r |-> into_number(right).v])

\* f32 division, for the quotients an integer represents; x / 0 is an infinity or NaN
f32_div(a, b) ==
    IF b = 0 THEN (IF a = 0 THEN "NaN" ELSE IF a > 0 THEN "Inf" ELSE "-Inf")
    ELSE IF a % b = 0 THEN a \div b
    ELSE <<a, b>>

\* the closure of evaluate_binary that maps both operand values to the result
binary_op(operator, left, right) ==
    CASE operator = "Subtract" ->
            LET n == numbers(left, right) IN
            IF ~n.ok THEN n ELSE Ok(Value_Number(n.v.l - n.v.r))
      [] operator = "Divide" ->
            LET n == numbers(left, right) IN
            IF ~n.ok THEN n ELSE Ok(Value_Number(f32_div(n.v.l, n.v.r)))
      [] operator = "Multiply" ->
            LET n == numbers(left, right) IN
            IF ~n.ok THEN n ELSE Ok(Value_Number(n.v.l * n.v.r))
      [] operator = "Less" ->
            LET n == numbers(left, right) IN
            IF ~n.ok THEN n ELSE Ok(Value_Boolean(n.v.l < n.v.r))
      [] operator = "LessEquals" ->
            LET n == numbers(left, right) IN
            IF ~n.ok THEN n ELSE Ok(Value_Boolean(n.v.l <= n.v.r))
      [] operator = "Greater" ->
            LET n == numbers(left, right) IN
            IF ~n.ok THEN n ELSE Ok(Value_Boolean(n.v.l > n.v.r))
      [] operator = "GreaterEquals" ->
            LET n == numbers(left, right) IN
            IF ~n.ok THEN n ELSE Ok(Value_Boolean(n.v.l >= n.v.r))
      [] operator = "Equals" -> Ok(Value_Boolean(Value_eq(left, right)))
      [] operator = "NotEquals" -> Ok(Value_Boolean(~Value_eq(left, right)))
      [] operator = "And" ->
            LET l == into_boolean(left) IN
            IF ~l.ok THEN l
            ELSE LET r == into_boolean(right) IN
                 IF ~r.ok THEN r
                 ELSE IF ~l.v THEN Ok(Value_Boolean(FALSE)) ELSE Ok(Value_Boolean(r.v))
      [] operator = "Or" ->
            LET l == into_boolean(left) IN
            IF ~l.ok THEN l
            ELSE LET r == into_boolean(right) IN
                 IF ~r.ok THEN r
                 ELSE IF l.v THEN Ok(Value_Boolean(TRUE)) ELSE Ok(Value_Boolean(r.v))
      [] operator = "Add" ->
            IF into_number(left).ok
            THEN LET r == into_number(right) IN
                 IF ~r.ok THEN r ELSE Ok(Value_Number(into_number(left).v + r.v))
            ELSE IF into_string(left).ok
            THEN LET r == into_string(right) IN
                 IF ~r.ok THEN r ELSE Ok(Value_String(into_string(left).v \o r.v))
            ELSE Err(TypeErrorMultiple(<<"Number", "String">>, value_type(left)))

evaluate_binary ==
    /\ Running /\ Top.fn = "evaluate_binary"
    /\ CASE Top.pc = "start" ->
               PushCall([Top EXCEPT !.pc = "left"], Frame_evaluate(Top.left), environment)
         [] Top.pc = "left" ->
               IF ~ret.ok THEN PopReturn(ret)
               ELSE PushCall([fn |-> "evaluate_binary", pc |-> "right",
                              location |-> Top.location, left |-> ret.v,
                              operator |-> Top.operator, right |-> Top.right],
                             Frame_evaluate(Top.right), environment)
         [] Top.pc = "right" ->
               IF ~ret.ok THEN PopReturn(ret)
               ELSE PopReturn(with_location(binary_op(Top.operator, Top.left, ret.v),
                                            Top.location))
    /\ UNCHANGED <<scanVars, input, ast, envs, environment, out>>

\* a variant of evaluate_call that compares the number of argument expressions with
\* the arity before it evaluates them
evaluate_call_arity_first ==
    /\ Running /\ Top.fn = "evaluate_call"
    /\ CASE Top.pc = "start" ->
               PushCall([Top EXCEPT !.pc = "callee"], Frame_evaluate(Top.callee), environment)
         [] Top.pc = "callee" ->
               IF ~ret.ok THEN PopReturn(ret)
               ELSE LET c == with_location(into_callable(ret.v), Top.location) IN
                    IF ~c.ok THEN PopReturn(c)
                    ELSE IF Len(Top.args_expressions) # arity(c.v)
                    THEN PopReturn(Err(RuntimeError(Top.location,
                                        WrongArgsNum(Len(Top.args_expressions), arity(c.v)))))
                    ELSE Goto([fn |-> "evaluate_call", pc |-> "args", location |-> Top.location,
                               callee |-> c.v, args_expressions |-> Top.args_expressions,
                               args |-> <<>>])
         [] Top.pc = "args" ->
               IF Returned /\ ~ret.ok THEN PopReturn(ret)
               ELSE LET args == IF Returned THEN Append(Top.args, ret.v) ELSE Top.args IN
                    IF Top.args_expressions # <<>>
                    THEN PushCall([Top EXCEPT !.args = args, !.args_expressions = Tail(@)],
                                  Frame_evaluate(Head(Top.args_expressions)), environment)
                    ELSE Goto([fn |-> "call", pc |-> "start", callee |-> Top.callee,
                               args |-> args, call_location |-> Top.location])
    /\ UNCHANGED <<scanVars, input, ast, envs, environment, out>>

evaluate_call ==
    /\ Running /\ Top.fn = "evaluate_call"
    /\ CASE Top.pc = "start" ->
               PushCall([Top EXCEPT !.pc = "callee"], Frame_evaluate(Top.callee), environment)
         [] Top.pc = "callee" ->
               IF ~ret.ok THEN PopReturn(ret)
               ELSE LET c == with_location(into_callable(ret.v), Top.location) IN
                    IF ~c.ok THEN PopReturn(c)
                    ELSE Goto([fn |-> "evaluate_call", pc |-> "args", location |-> Top.location,
                               callee |-> c.v, args_expressions |-> Top.args_expressions,
                               args |-> <<>>])
         [] Top.pc = "args" ->
               IF Returned /\ ~ret.ok THEN PopReturn(ret)
               ELSE LET args == IF Returned THEN Append(Top.args, ret.v) ELSE Top.args IN
                    IF Top.args_expressions # <<>>
                    THEN PushCall([Top EXCEPT !.args = args, !.args_expressions = Tail(@)],
                                  Frame_evaluate(Head(Top.args_expressions)), environment)
                    ELSE IF Len(args) # arity(Top.callee)
                    THEN PopReturn(Err(RuntimeError(Top.location,
                                        WrongArgsNum(Len(args), arity(Top.callee)))))
                    ELSE Goto([fn |-> "call", pc |-> "start", callee |-> Top.callee,
                               args |-> args, call_location |-> Top.location])
    /\ UNCHANGED <<scanVars, input, ast, envs, environment, out>>

\* for (param, arg) in params.zip(args) { environment.define(param, arg) }
RECURSIVE define_params(_, _, _, _)
define_params(h, e, params, args) ==
    IF params = <<>> \/ args = <<>> THEN h
    ELSE define_params(Environment_define(h, e, Head(params), Head(args)), e,
                       Tail(params), Tail(args))

\* the native functions clock and debug; now is what SystemTime::now() reads
native(fun, args, now) ==
    IF fun = "clock" THEN Ok(Value_Number(now))
    ELSE IF Len(args) # 1 THEN Err(WrongArgsNum(Len(args), 1))
    ELSE Ok(Value_String(DebugFmt(args[1])))

\* a variant of the match on ans without the Returning arm
call_result_without_returning(ans) == IF ans.ok THEN Ok(Value_Nil) ELSE ans

\* match ans { Ok(()) => Ok(Value::Nil), Err(Returning(v)) => Ok(v), Err(e) => Err(e) }
call_result(ans) ==
    IF ans.ok THEN Ok(Value_Nil)
    ELSE IF ans.e.value.k = "Returning" THEN Ok(ans.e.value.v)
    ELSE ans

\* a variant of LoxCallable::call that binds the parameters in the closure itself
\* instead of a new environment inside it
call_in_closure ==
    /\ Running /\ Top.fn = "call"
    /\ \E now \in ClockValues :
       CASE Top.pc = "start" /\ Top.callee.kind = "LoxFunction" ->
               /\ envs' = define_params(envs, Top.callee.closure, Top.callee.params, Top.args)
               /\ environment' = Top.callee.closure
               /\ PushCall([fn |-> "call", pc |-> "ans", old_env |-> environment],
                           [fn |-> "execute_block_statement", pc |-> "start",
                            statements |-> Top.callee.body],
                           Top.callee.closure)
         [] Top.pc = "start" /\ Top.callee.kind = "NativeFunction" ->
               /\ PopReturn(with_location(native(Top.callee.fun, Top.args, now),
                                          Top.call_location))
               /\ UNCHANGED <<envs, environment>>
         [] Top.pc = "ans" ->
               /\ environment' = Top.old_env
               /\ envs' = envs
               /\ PopReturn(call_result(ret))
    /\ UNCHANGED <<scanVars, input, ast, out>>

\* LoxCallable::call
call ==
    /\ Running /\ Top.fn = "call"
    /\ \E now \in ClockValues :
       CASE Top.pc = "start" /\ Top.callee.kind = "LoxFunction" ->
               /\ Len(envs) < MaxEnvs
               /\ envs' = define_params(new_inside(envs, Top.callee.closure), Len(envs) + 1,
                                        Top.callee.params, Top.args)
               /\ environment' = Len(envs) + 1
               /\ PushCall([fn |-> "call", pc |-> "ans", old_env |-> environment],
                           [fn |-> "execute_block_statement", pc |-> "start",
                            statements |-> Top.callee.body],
                           Len(envs) + 1)
         [] Top.pc = "start" /\ Top.callee.kind = "NativeFunction" ->
               /\ PopReturn(with_location(native(Top.callee.fun, Top.args, now),
                                          Top.call_location))
               /\ UNCHANGED <<envs, environment>>
         [] Top.pc = "ans" ->
               /\ environment' = Top.old_env
               /\ envs' = envs
               /\ PopReturn(call_result(ret))
    /\ UNCHANGED <<scanVars, input, ast, out>>

(***************************************************************************)
(* scanner.rs.  The source is the sequence of its chars (Unicode scalar    *)
(* values), each a string; "U+00E9" is a char whose UTF-8 encoding takes   *)
(* two bytes.  An operator that takes &mut self returns the scanner        *)
(* afterwards next to its result.                                          *)
(***************************************************************************)
Token_Symbol(symbol) == [k |-> "Symbol", v |-> symbol]
Token_Literal(literal) == [k |-> "Literal", v |-> literal]
Token_Keyword(keyword) == [k |-> "Keyword", v |-> keyword]
Token_Identifier(text) == [k |-> "Identifier", v |-> text]
Token_Eof == [k |-> "Eof"]
CodeToken(token, loc, lexeme) == [token |-> token, location |-> loc, lexeme |-> lexeme]

InvalidStartOfToken(c) == [k |-> "InvalidStartOfToken", c |-> c]
UnterminatedString == [k |-> "UnterminatedString"]
TokenizeError(loc, kind) == [location |-> loc, value |-> kind]

Keyword_from_word(word) ==
    CASE word = "and" -> Some("And")
      [] word = "class" -> Some("Class")
      [] word = "else" -> Some("Else")
      [] word = "fun" -> Some("Fun")
      [] word = "for" -> Some("For")
      [] word = "if" -> Some("If")
      [] word = "or" -> Some("Or")
      [] word = "print" -> Some("Print")
      [] word = "return" -> Some("Return")
      [] word = "super" -> Some("Super")
      [] word = "this" -> Some("This")
      [] word = "var" -> Some("Var")
      [] word = "while" -> Some("While")
      [] OTHER -> None

len_utf8(c) == IF c = "U+00E9" THEN 2 ELSE 1

is_ascii_digit(c) == c \in {"0", "1", "2", "3", "4", "5", "6", "7", "8", "9"}

is_ascii_alphabetic(c) ==
    c \in {"a", "b", "c", "d", "e", "f", "g", "h", "i", "j", "k", "l", "m",
           "n", "o", "p", "q", "r", "s", "t", "u", "v", "w", "x", "y", "z",
           "A", "B", "C", "D", "E", "F", "G", "H", "I", "J", "K", "L", "M",
           "N", "O", "P", "Q", "R", "S", "T", "U", "V", "W", "X", "Y", "Z"}

is_ascii_alphanumeric(c) == is_ascii_alphabetic(c) \/ is_ascii_digit(c)

\* source.chars().skip(skip).take(take)
chars_skip_take(source, skip, take) ==
    SubSeq(source, skip + 1, IF skip + take > Len(source) THEN Len(source) ELSE skip + take)

\* .collect::<String>()
RECURSIVE collect(_)
collect(chars) == IF chars = <<>> THEN "" ELSE Head(chars) \o collect(Tail(chars))

\* the length in bytes of the UTF-8 encoding
RECURSIVE byte_len(_)
byte_len(chars) == IF chars = <<>> THEN 0 ELSE len_utf8(Head(chars)) + byte_len(Tail(chars))

\* str::rfind('\n'): the byte index of the last newline
rfind_newline(chars) ==
    LET at == {i \in 1..Len(chars) : chars[i] = "\n"} IN
    IF at = {} THEN None
    ELSE Some(byte_len(SubSeq(chars, 1, (CHOOSE i \in at : \A j \in at : j <= i) - 1)))

\* a usize result n of wrapping arithmetic; below zero it stands for 2^64 + n
usize_wrapping(n) == IF n >= 0 THEN n ELSE <<"2^64", n>>

Scanner_new(source) == [source |-> source, lexeme_start |-> 0, lexeme_len |-> 0, line |-> 1]

peek(self) ==
    IF self.lexeme_start + self.lexeme_len < Len(self.source)
    THEN Some(self.source[self.lexeme_start + self.lexeme_len + 1])
    ELSE None

is_at_end(self) == ~peek(self).some

\* the scanner after advance(); the char it returns is peek(self).v
advance(self) == [self EXCEPT !.lexeme_len = @ + 1]

matches(self, expected) ==
    IF peek(self).some /\ peek(self).v = expected
    THEN [self |-> [self EXCEPT !.lexeme_len = @ + 1], res |-> TRUE]
    ELSE [self |-> self, res |-> FALSE]

peek_next(self) ==
    IF self.lexeme_start + self.lexeme_len + 1 < Len(self.source)
    THEN Some(self.source[self.lexeme_start + self.lexeme_len + 2])
    ELSE None

\* lexeme_start counts chars, last_line_start counts bytes; the subtraction panics
\* when overflow checks are compiled in (a debug build) and wraps otherwise
location(self, overflow_checks) ==
    IF self.lexeme_start >= Len(self.source)
    THEN Panic("called Option::unwrap() on a None value")
    ELSE LET before_current == SubSeq(self.source, 1, self.lexeme_start)
             line == Cardinality({i \in 1..Len(before_current) : before_current[i] = "\n"})
             found == rfind_newline(before_current)
             last_line_start == IF found.some THEN found.v + 1 ELSE 0
         IN  IF self.lexeme_start < last_line_start /\ overflow_checks
             THEN Panic("attempt to subtract with overflow")
             ELSE Ok(<<line + 1, usize_wrapping(self.lexeme_start - last_line_start + 1)>>)

\* while self.peek() != Some('"') && self.peek() != None { ... }
RECURSIVE string_loop(_)
string_loop(self) ==
    IF peek(self).some /\ peek(self).v # "\""
    THEN string_loop(advance(IF peek(self).v = "\n"
                             THEN [self EXCEPT !.line = @ + 1] ELSE self))
    ELSE self

string(self, overflow_checks) ==
    LET s == string_loop(self) IN
    IF is_at_end(s)
    THEN LET loc == location(s, overflow_checks) IN
         [self |-> s,
          res |-> IF loc.ok THEN Err(TokenizeError(loc.v, UnterminatedString)) ELSE loc]
    ELSE LET t == advance(s) IN
         [self |-> t,
          res |-> Ok(collect(chars_skip_take(t.source, t.lexeme_start + 1, t.lexeme_len - 2)))]

\* while self.peek().map(|c| c.is_ascii_digit()).unwrap_or(false) { self.advance(); }
RECURSIVE digits_loop(_)
digits_loop(self) ==
    IF peek(self).some /\ is_ascii_digit(peek(self).v) THEN digits_loop(advance(self)) ELSE self

\* str::parse::<f32> of digits with an optional fraction: the decimal as the text
\* without its dot over the power of ten of its fraction digits
RECURSIVE parse_digits(_, _)
parse_digits(chars, acc) ==
    IF chars = <<>> THEN acc
    ELSE parse_digits(Tail(chars),
                      10 * acc + (CHOOSE d \in 0..9 : ToString(d) = Head(chars)))

parse_f32(chars) ==
    LET dots == {i \in 1..Len(chars) : chars[i] = "."} IN
    IF dots = {} THEN [n |-> parse_digits(chars, 0), frac |-> 0]
    ELSE LET dot == CHOOSE i \in dots : TRUE IN
         [n |-> parse_digits(SubSeq(chars, 1, dot - 1) \o SubSeq(chars, dot + 1, Len(chars)), 0),
          frac |-> Len(chars) - dot]

number(self) ==
    LET s == digits_loop(self)
        t == IF peek(s) = Some(".") /\ peek_next(s).some /\ is_ascii_digit(peek_next(s).v)
             THEN digits_loop(advance(s))
             ELSE s
    IN  [self |-> t, res |-> parse_f32(chars_skip_take(t.source, t.lexeme_start, t.lexeme_len))]

RECURSIVE word_loop(_)
word_loop(self) ==
    IF peek(self).some /\ is_ascii_alphanumeric(peek(self).v)
    THEN word_loop(advance(self)) ELSE self

word(self) ==
    LET s == word_loop(self)
        text == collect(chars_skip_take(s.source, s.lexeme_start, s.lexeme_len))
    IN  [self |-> s,
         res |-> IF Keyword_from_word(text).some THEN Token_Keyword(Keyword_from_word(text).v)
                 ELSE IF text = "false" THEN Token_Literal(Lit_Boolean(FALSE))
                 ELSE IF text = "true" THEN Token_Literal(Lit_Boolean(TRUE))
                 ELSE IF text = "nil" THEN Token_Literal(Lit_Nil)
                 ELSE Token_Identifier(text)]

\* the '!', '=', '<', '>' arms: the two-char symbol when '=' follows
two_char(self, double, single) ==
    LET m == matches(self, "=") IN
    [self |-> m.self, res |-> Ok(Some(Token_Symbol(IF m.res THEN double ELSE single)))]

\* the body of the comment loop: advance up to the newline or the end
RECURSIVE comment_loop(_)
comment_loop(self) ==
    IF peek(self).some /\ peek(self).v # "\n" THEN comment_loop(advance(self)) ELSE self

\* res is Ok(Some(token)), Ok(None), Err(TokenizeError) or a panic
scan_token(self, overflow_checks) ==
    IF is_at_end(self)
    THEN [self |-> self, res |-> Panic("advaned past the end of the source")]
    ELSE
    LET c == peek(self).v
        s == advance(self)
        symbol(name) == [self |-> s, res |-> Ok(Some(Token_Symbol(name)))]
    IN  CASE c = "(" -> symbol("LeftParen")
          [] c = ")" -> symbol("RightParen")
          [] c = "{" -> symbol("LeftBrace")
          [] c = "}" -> symbol("RightBrace")
          [] c = "," -> symbol("Comma")
          [] c = "." -> symbol("Dot")
          [] c = "-" -> symbol("Minus")
          [] c = "+" -> symbol("Plus")
          [] c = ";" -> symbol("Semicolon")
          [] c = "*" -> symbol("Star")
          [] c = "!" -> two_char(s, "BangEqual", "Bang")
          [] c = "=" -> two_char(s, "EqualEqual", "Equal")
          [] c = "<" -> two_char(s, "LessEqual", "Less")
          [] c = ">" -> two_char(s, "GreaterEqual", "Greater")
          [] c = "/" ->
                LET m == matches(s, "/") IN
                IF m.res THEN [self |-> comment_loop(m.self), res |-> Ok(None)]
                ELSE [self |-> m.self, res |-> Ok(Some(Token_Symbol("Slash")))]
          [] c \in {" ", "\r", "\t"} -> [self |-> s, res |-> Ok(None)]
          [] c = "\n" -> [self |-> [s EXCEPT !.line = @ + 1], res |-> Ok(None)]
          [] c = "\"" ->
                LET r == string(s, overflow_checks) IN
                [self |-> r.self,
                 res |-> IF r.res.ok THEN Ok(Some(Token_Literal(Lit_String(r.res.v))))
                         ELSE r.res]
          [] is_ascii_digit(c) ->
                LET r == number(s) IN
                [self |-> r.self, res |-> Ok(Some(Token_Literal(Lit_Number(r.res))))]
          [] is_ascii_alphabetic(c) \/ c = "_" ->
                LET r == word(s) IN [self |-> r.self, res |-> Ok(Some(r.res))]
          [] OTHER ->
                LET loc == location(s, overflow_checks) IN
                [self |-> s,
                 res |-> IF loc.ok THEN Err(TokenizeError(loc.v, InvalidStartOfToken(c)))
                         ELSE loc]

\* Scanner::tokens, one step an iteration of its loop or the push of Eof after it;
\* scan.tokens and scan.errors are its locals and, at pc "done", what it returns
tokens ==
    /\ stage = "scan" /\ scan.pc = "loop"
    /\ \/ /\ ~is_at_end(scanner)
          /\ LET t == scan_token([scanner EXCEPT !.lexeme_start = @ + scanner.lexeme_len,
                                                 !.lexeme_len = 0],
                                 scan.overflow_checks)
                 lexeme == collect(chars_skip_take(t.self.source, t.self.lexeme_start,
                                                   t.self.lexeme_len))
                 loc == location(t.self, scan.overflow_checks)
             IN  /\ scanner' = t.self
                 /\ scan' = IF t.res.ok
                            THEN IF ~t.res.v.some THEN scan
                                 ELSE IF ~loc.ok THEN [scan EXCEPT !.pc = "panic"]
                                 ELSE [scan EXCEPT
                                          !.tokens = Append(@, CodeToken(t.res.v.v, loc.v, lexeme))]
                            ELSE IF t.res.panic THEN [scan EXCEPT !.pc = "panic"]
                            ELSE [scan EXCEPT !.errors = Append(@, t.res.e)]
       \/ /\ is_at_end(scanner)
          /\ LET loc == location(scanner, scan.overflow_checks) IN
             scan' = IF ~loc.ok THEN [scan EXCEPT !.pc = "panic"]
                     ELSE [scan EXCEPT !.pc = "done",
                                       !.tokens = Append(@, CodeToken(Token_Eof, loc.v, ""))]
          /\ scanner' = scanner
    /\ parser' = parser
    /\ UNCHANGED runVars

(***************************************************************************)
(* parser.rs.  self is [current, tokens, errors]; a method that takes      *)
(* &mut self returns [self |-> the Parser afterwards, res |-> its result]. *)
(* tokens[current] of the source is self.tokens[self.current + 1] here.    *)
(* The token list ends with Eof and advance never steps past it, so peek   *)
(* and previous find their token.                                          *)
(***************************************************************************)
ParseError(loc, kind) == [location |-> loc, value |-> kind]
UnexpectedToken(actual, expected) ==
    [k |-> "UnexpectedToken", actual |-> actual, expected |-> expected]
InvalidExpression == [k |-> "InvalidExpression"]
InvalidLvalue == [k |-> "InvalidLvalue"]

\* #[derive(PartialEq)] for Token, for an expected Symbol, Keyword or Eof
Token_eq(token, expected) ==
    /\ token.k = expected.k
    /\ token.k \in {"Symbol", "Keyword"} => token.v = expected.v

\* the Literal of a token as the AST of this model holds it: a Number without fraction
\* digits is the integer it denotes
Literal_clone(l) ==
    IF l.t = "Number" /\ l.v.frac = 0 THEN Lit_Number(l.v.n) ELSE l

UnaryOperator_from_token(token) ==
    CASE Token_eq(token, Token_Symbol("Bang")) -> Some("Not")
      [] Token_eq(token, Token_Symbol("Minus")) -> Some("Minus")
      [] OTHER -> None

BinaryOperator_from_token(token) ==
    IF token.k # "Symbol" THEN None
    ELSE CASE token.v = "Plus" -> Some("Add")
           [] token.v = "Minus" -> Some("Subtract")
           [] token.v = "Slash" -> Some("Divide")
           [] token.v = "Star" -> Some("Multiply")
           [] token.v = "EqualEqual" -> Some("Equals")
           [] token.v = "BangEqual" -> Some("NotEquals")
           [] token.v = "Less" -> Some("Less")
           [] token.v = "LessEqual" -> Some("LessEquals")
           [] token.v = "Greater" -> Some("Greater")
           [] token.v = "GreaterEqual" -> Some("GreaterEquals")
           [] OTHER -> None

is_statement_start(keyword) ==
    keyword \in {"Class", "Fun", "Var", "For", "If", "While", "Print", "Return"}

Parser_new(toks) == [current |-> 0, tokens |-> toks, errors |-> <<>>]

Parser_peek(self) == self.tokens[self.current + 1]

previous(self) == self.tokens[self.current]

Parser_is_at_end(self) == Token_eq(Parser_peek(self).token, Token_Eof)

check(self, token) == Token_eq(Parser_peek(self).token, token)

Parser_advance(self) ==
    LET s == IF ~Parser_is_at_end(self) THEN [self EXCEPT !.current = @ + 1] ELSE self
    IN  [self |-> s, res |-> previous(s)]

Parser_matches(self, token) ==
    IF check(self, token)
    THEN [self |-> Parser_advance(self).self, res |-> TRUE]
    ELSE [self |-> self, res |-> FALSE]

consume(self, expected) ==
    IF check(self, expected)
    THEN [self |-> Parser_advance(self).self, res |-> Ok(Parser_advance(self).res)]
    ELSE [self |-> self,
          res |-> Err(ParseError(Parser_peek(self).location,
                                 UnexpectedToken(Parser_peek(self).token, expected)))]

consume_identifier(self) ==
    LET actual == Parser_peek(self) IN
    IF actual.token.k = "Identifier"
    THEN [self |-> Parser_advance(self).self,
          res |-> Ok([location |-> actual.location, value |-> actual.token.v])]
    ELSE [self |-> self,
          res |-> Err(ParseError(actual.location,
                                 UnexpectedToken(actual.token, Token_Identifier(""))))]

\* a variant of the while loop of synchronize that stops only after a semicolon
RECURSIVE synchronize_loop_semicolon_only(_)
synchronize_loop_semicolon_only(self) ==
    IF Parser_is_at_end(self) THEN self
    ELSE IF Token_eq(previous(self).token, Token_Symbol("Semicolon"))
    THEN self
    ELSE synchronize_loop_semicolon_only(Parser_advance(self).self)

\* the while loop of synchronize
RECURSIVE synchronize_loop(_)
synchronize_loop(self) ==
    IF Parser_is_at_end(self) THEN self
    ELSE IF \/ Token_eq(previous(self).token, Token_Symbol("Semicolon"))
            \/ /\ Parser_peek(self).token.k = "Keyword"
               /\ is_statement_start(Parser_peek(self).token.v)
    THEN self
    ELSE synchronize_loop(Parser_advance(self).self)

synchronize(self) == synchronize_loop(Parser_advance(self).self)

RECURSIVE binary_level(_, _)
RECURSIVE binary_loop(_, _, _)
RECURSIVE unary(_)
RECURSIVE primary(_)
RECURSIVE assignment(_)

\* the operator tokens that the while of a binary rule matches, by the level of the
\* rule: 1 or, 2 and, 3 equality, 4 comparison, 5 term, 6 factor
level_matches(level, token) ==
    CASE level = 1 -> Token_eq(token, Token_Keyword("Or"))
      [] level = 2 -> Token_eq(token, Token_Keyword("And"))
      [] level = 3 -> token.k = "Symbol" /\ token.v \in {"BangEqual", "EqualEqual"}
      [] level = 4 ->
            token.k = "Symbol" /\ token.v \in {"Greater", "GreaterEqual", "Less", "LessEqual"}
      [] level = 5 -> token.k = "Symbol" /\ token.v \in {"Minus", "Plus"}
      [] level = 6 -> token.k = "Symbol" /\ token.v \in {"Slash", "Star"}

level_operator(level, token) ==
    CASE level = 1 -> "Or"
      [] level = 2 -> "And"
      [] OTHER -> BinaryOperator_from_token(token).v

\* a variant of binary_loop whose right operand is parsed by the rule of the loop
\* itself, not by the next rule
binary_loop_same_rule(self, level, expr) ==
    IF ~level_matches(level, Parser_peek(self).token)
    THEN [self |-> self, res |-> Ok(expr)]
    ELSE LET operator == Parser_peek(self)
             right(r) ==
                 IF ~r.res.ok THEN r
                 ELSE binary_loop(r.self, level,
                                  Binary(operator.location, expr,
                                         level_operator(level, operator.token), r.res.v))
         IN  right(binary_level(Parser_advance(self).self, level))

\* while self.matches(..) { let operator = self.previous(); let right = next()?;
\*                          expr = Binary(expr, operator, right) at operator.location }
binary_loop(self, level, expr) ==
    IF ~level_matches(level, Parser_peek(self).token)
    THEN [self |-> self, res |-> Ok(expr)]
    ELSE LET operator == Parser_peek(self)
             right(r) ==
                 IF ~r.res.ok THEN r
                 ELSE binary_loop(r.self, level,
                                  Binary(operator.location, expr,
                                         level_operator(level, operator.token), r.res.v))
         IN  right(binary_level(Parser_advance(self).self, level + 1))

\* a binary rule: its left operand by the next rule, then its loop
binary_level(self, level) ==
    IF level > 6 THEN unary(self)
    ELSE LET left(l) == IF ~l.res.ok THEN l ELSE binary_loop(l.self, level, l.res.v)
         IN  left(binary_level(self, level + 1))

or(self) == binary_level(self, 1)
and(self) == binary_level(self, 2)
equality(self) == binary_level(self, 3)
comparison(self) == binary_level(self, 4)
term(self) == binary_level(self, 5)
factor(self) == binary_level(self, 6)

expression(self) == assignment(self)

\* a variant of assignment that returns the InvalidLvalue error instead of pushing it
assignment_failing(self) ==
    LET lhs(e) ==
            IF ~e.res.ok THEN e
            ELSE IF ~check(e.self, Token_Symbol("Equal")) THEN e
            ELSE LET equals == Parser_peek(e.self)
                     rhs(v) ==
                         IF ~v.res.ok THEN v
                         ELSE IF e.res.v.k = "Variable"
                         THEN [self |-> v.self,
                               res |-> Ok(Assign(equals.location, e.res.v.v, v.res.v))]
                         ELSE [self |-> v.self,
                               res |-> Err(ParseError(equals.location, InvalidLvalue))]
                 IN  rhs(assignment(Parser_advance(e.self).self))
    IN  lhs(or(self))

assignment(self) ==
    LET lhs(e) ==
            IF ~e.res.ok THEN e
            ELSE IF ~check(e.self, Token_Symbol("Equal")) THEN e
            ELSE LET equals == Parser_peek(e.self)
                     rhs(v) ==
                         IF ~v.res.ok THEN v
                         ELSE IF e.res.v.k = "Variable"
                         THEN [self |-> v.self,
                               res |-> Ok(Assign(equals.location, e.res.v.v, v.res.v))]
                         ELSE [self |-> [v.self EXCEPT !.errors =
                                            Append(@, ParseError(equals.location,
                                                                 InvalidLvalue))],
                               res |-> e.res]
                 IN  rhs(assignment(Parser_advance(e.self).self))
    IN  lhs(or(self))

unary(self) ==
    IF \/ check(self, Token_Symbol("Bang"))
       \/ check(self, Token_Symbol("Minus"))
    THEN LET operator == Parser_peek(self)
             then(r) ==
                 IF ~r.res.ok THEN r
                 ELSE [self |-> r.self,
                       res |-> Ok(Unary(operator.location,
                                        UnaryOperator_from_token(operator.token).v,
                                        r.res.v))]
         IN  then(unary(Parser_advance(self).self))
    ELSE primary(self)

primary(self) ==
    LET token == self.tokens[self.current + 1] IN
    IF token.token.k = "Literal"
    THEN [self |-> [self EXCEPT !.current = @ + 1],
          res |-> Ok(Literal(token.location, Literal_clone(token.token.v)))]
    ELSE IF consume_identifier(self).res.ok
    THEN [self |-> consume_identifier(self).self,
          res |-> Ok(Variable(consume_identifier(self).res.v.location,
                              consume_identifier(self).res.v.value))]
    ELSE IF check(self, Token_Symbol("LeftParen"))
    THEN LET left_paren == Parser_peek(self)
             then(e) ==
                 IF ~e.res.ok THEN e
                 ELSE LET closed == consume(e.self, Token_Symbol("RightParen")) IN
                      IF ~closed.res.ok THEN closed
                      ELSE [self |-> closed.self,
                            res |-> Ok(Grouping(left_paren.location, e.res.v))]
         IN  then(expression(Parser_advance(self).self))
    ELSE [self |-> self, res |-> Err(ParseError(token.location, InvalidExpression))]

RECURSIVE statement(_)
RECURSIVE declaration(_)
RECURSIVE block_loop(_, _)

var_declaration(self) ==
    LET named(name) ==
            IF ~name.res.ok THEN name
            ELSE LET end(initializer) ==
                         IF ~initializer.res.ok THEN initializer
                         ELSE LET semicolon(c) ==
                                      IF ~c.res.ok THEN c
                                      ELSE [self |-> c.self,
                                            res |-> Ok(Stmt_Var(name.res.v.value,
                                                                initializer.res.v))]
                              IN  semicolon(consume(initializer.self,
                                                    Token_Symbol("Semicolon")))
                     some(e) == IF ~e.res.ok THEN e ELSE [self |-> e.self, res |-> Ok(Some(e.res.v))]
                 IN  IF check(name.self, Token_Symbol("Equal"))
                     THEN end(some(expression(Parser_advance(name.self).self)))
                     ELSE end([self |-> name.self, res |-> Ok(None)])
    IN  named(consume_identifier(self))

expression_statement(self) ==
    LET then(expr) ==
            IF ~expr.res.ok THEN expr
            ELSE LET semicolon(c) ==
                         IF ~c.res.ok THEN c
                         ELSE [self |-> c.self, res |-> Ok(Stmt_Expression(expr.res.v))]
                 IN  semicolon(consume(expr.self, Token_Symbol("Semicolon")))
    IN  then(expression(self))

print_statement(self) ==
    LET then(value) ==
            IF ~value.res.ok THEN value
            ELSE LET semicolon(c) ==
                         IF ~c.res.ok THEN c
                         ELSE [self |-> c.self, res |-> Ok(Stmt_Print(value.res.v))]
                 IN  semicolon(consume(value.self, Token_Symbol("Semicolon")))
    IN  then(expression(self))

\* ( condition ) of if_statement and while_statement
parenthesized(self) ==
    LET open(p) ==
            IF ~p.res.ok THEN p
            ELSE LET cond(c) ==
                         IF ~c.res.ok THEN c
                         ELSE LET close(r) ==
                                      IF ~r.res.ok THEN r
                                      ELSE [self |-> r.self, res |-> c.res]
                              IN  close(consume(c.self, Token_Symbol("RightParen")))
                 IN  cond(expression(p.self))
    IN  open(consume(self, Token_Symbol("LeftParen")))

if_statement(self) ==
    LET cond(c) ==
            IF ~c.res.ok THEN c
            ELSE LET then(t) ==
                         IF ~t.res.ok THEN t
                         ELSE IF ~check(t.self, Token_Keyword("Else"))
                         THEN [self |-> t.self, res |-> Ok(Stmt_If(c.res.v, t.res.v, None))]
                         ELSE LET else(e) ==
                                      IF ~e.res.ok THEN e
                                      ELSE [self |-> e.self,
                                            res |-> Ok(Stmt_If(c.res.v, t.res.v, Some(e.res.v)))]
                              IN  else(statement(Parser_advance(t.self).self))
                 IN  then(statement(c.self))
    IN  cond(parenthesized(self))

while_statement(self) ==
    LET cond(c) ==
            IF ~c.res.ok THEN c
            ELSE LET body(b) ==
                         IF ~b.res.ok THEN b
                         ELSE [self |-> b.self, res |-> Ok(Stmt_While(c.res.v, b.res.v))]
                 IN  body(statement(c.self))
    IN  cond(parenthesized(self))

\* let initializer = ... of for_statement
for_initializer(self) ==
    LET some(s) == IF ~s.res.ok THEN s ELSE [self |-> s.self, res |-> Ok(Some(s.res.v))] IN
    IF check(self, Token_Symbol("Semicolon"))
    THEN [self |-> Parser_advance(self).self, res |-> Ok(None)]
    ELSE IF check(self, Token_Keyword("Var"))
    THEN some(var_declaration(Parser_advance(self).self))
    ELSE some(expression_statement(self))

\* let condition = ... of for_statement
for_condition(self) ==
    IF check(self, Token_Symbol("Semicolon"))
    THEN [self |-> Parser_advance(self).self,
          res |-> Ok(Literal(Parser_peek(self).location, Lit_Boolean(TRUE)))]
    ELSE LET semicolon(c) == IF ~c.res.ok THEN c ELSE expression(c.self)
         IN  semicolon(consume(self, Token_Symbol("Semicolon")))

\* let increment = ... of for_statement
for_increment(self) ==
    LET some(e) == IF ~e.res.ok THEN e ELSE [self |-> e.self, res |-> Ok(Some(e.res.v))] IN
    IF ~check(self, Token_Symbol("RightParen"))
    THEN some(expression(self))
    ELSE [self |-> self, res |-> Ok(None)]

\* the tail of for_statement: the statement built from the parts
for_desugared(initializer, condition, increment, body) ==
    LET stepped == IF increment.some
                   THEN Stmt_Block(<<body, Stmt_Expression(increment.v)>>)
                   ELSE body
        loop == Stmt_While(condition, stepped)
    IN  IF initializer.some THEN Stmt_Block(<<initializer.v, loop>>) ELSE loop

for_statement(self) ==
    LET open(p) ==
        IF ~p.res.ok THEN p
        ELSE LET init(i) ==
                 IF ~i.res.ok THEN i
                 ELSE LET cond(c) ==
                          IF ~c.res.ok THEN c
                          ELSE LET incr(n) ==
                                   IF ~n.res.ok THEN n
                                   ELSE LET close(r) ==
                                            IF ~r.res.ok THEN r
                                            ELSE LET body(b) ==
                                                     IF ~b.res.ok THEN b
                                                     ELSE [self |-> b.self,
                                                           res |-> Ok(for_desugared(
                                                               i.res.v, c.res.v,
                                                               n.res.v, b.res.v))]
                                                 IN  body(statement(r.self))
                                        IN  close(consume(n.self, Token_Symbol("RightParen")))
                               IN  incr(for_increment(c.self))
                      IN  cond(for_condition(i.self))
             IN  init(for_initializer(p.self))
    IN  open(consume(self, Token_Symbol("LeftParen")))

\* the while loop of block: declarations up to the right brace or the end
block_loop(self, statements) ==
    IF ~check(self, Token_Symbol("RightBrace")) /\ ~Parser_is_at_end(self)
    THEN LET then(d) ==
                 block_loop(d.self,
                            IF d.res.some THEN Append(statements, d.res.v) ELSE statements)
         IN  then(declaration(self))
    ELSE [self |-> self, statements |-> statements]

block(self) ==
    LET then(l) ==
            LET brace(c) ==
                    IF ~c.res.ok THEN c ELSE [self |-> c.self, res |-> Ok(l.statements)]
            IN  brace(consume(l.self, Token_Symbol("RightBrace")))
    IN  then(block_loop(self, <<>>))

statement(self) ==
    IF check(self, Token_Keyword("If")) THEN if_statement(Parser_advance(self).self)
    ELSE IF check(self, Token_Keyword("For")) THEN for_statement(Parser_advance(self).self)
    ELSE IF check(self, Token_Keyword("While")) THEN while_statement(Parser_advance(self).self)
    ELSE IF check(self, Token_Keyword("Print")) THEN print_statement(Parser_advance(self).self)
    ELSE IF check(self, Token_Symbol("LeftBrace"))
    THEN LET then(b) == IF ~b.res.ok THEN b ELSE [self |-> b.self, res |-> Ok(Stmt_Block(b.res.v))]
         IN  then(block(Parser_advance(self).self))
    ELSE expression_statement(self)

\* res is Some(statement), or None after an error was pushed and synchronize has run
declaration(self) ==
    LET then(s) ==
            IF s.res.ok THEN [self |-> s.self, res |-> Some(s.res.v)]
            ELSE [self |-> synchronize([s.self EXCEPT !.errors = Append(@, s.res.e)]),
                  res |-> None]
    IN  IF check(self, Token_Keyword("Var"))
        THEN then(var_declaration(Parser_advance(self).self))
        ELSE then(statement(self))

LoxError_Tokenize(e) == [k |-> "Tokenize", e |-> e]
LoxError_Parse(e) == [k |-> "Parse", e |-> e]

RECURSIVE map_Tokenize(_)
map_Tokenize(errs) ==
    IF errs = <<>> THEN <<>> ELSE <<LoxError_Tokenize(Head(errs))>> \o map_Tokenize(Tail(errs))

RECURSIVE map_Parse(_)
map_Parse(errs) ==
    IF errs = <<>> THEN <<>> ELSE <<LoxError_Parse(Head(errs))>> \o map_Parse(Tail(errs))

\* run(), once Scanner::tokens has returned: the errors of the scanner end the run,
\* otherwise Parser::new(tokens)
\* a variant of run that hands the tokens to the parser whatever the scanner reported
run_ignoring_scan_errors ==
    /\ stage = "scan" /\ scan.pc \in {"done", "panic"}
    /\ IF scan.pc = "panic" THEN /\ Finish(Panic("Scanner::tokens")) /\ parser' = parser
       ELSE /\ stage' = "parse" /\ parser' = Parser_new(scan.tokens)
            /\ UNCHANGED <<result, stack, entry, ret>>
    /\ UNCHANGED <<scanner, scan, input, ast, envs, environment, out>>

run ==
    /\ stage = "scan" /\ scan.pc \in {"done", "panic"}
    /\ IF scan.pc = "panic"
       THEN /\ Finish(Panic("Scanner::tokens"))
            /\ parser' = parser
       ELSE IF scan.errors # <<>>
       THEN /\ Finish(Err(map_Tokenize(scan.errors)))
            /\ parser' = parser
       ELSE /\ stage' = "parse"
            /\ parser' = Parser_new(scan.tokens)
            /\ UNCHANGED <<result, stack, entry, ret>>
    /\ UNCHANGED <<scanner, scan, input, ast, envs, environment, out>>

\* a variant of parse that tries the declaration again at the same token after an error
parse_retrying ==
    /\ stage = "parse"
    /\ IF ~Parser_is_at_end(parser)
       THEN LET d == declaration(parser) IN
            /\ parser' = IF d.res.some THEN d.self
                         ELSE [parser EXCEPT !.errors = d.self.errors]
            /\ ast' = IF d.res.some THEN Append(ast, d.res.v) ELSE ast
            /\ UNCHANGED <<stage, result, stack, entry, ret>>
       ELSE /\ parser' = parser
            /\ ast' = ast
            /\ IF parser.errors = <<>>
               THEN /\ stage' = "resolve"
                    /\ UNCHANGED <<result, stack, entry, ret>>
               ELSE Finish(Err(map_Parse(parser.errors)))
    /\ UNCHANGED <<scanner, scan, input, envs, environment, out>>

\* Parser::parse, one step an iteration of its loop or its return; ast is its local
\* `statements`; run() goes on to the resolver with Ok(statements) and returns the errors
parse ==
    /\ stage = "parse"
    /\ IF ~Parser_is_at_end(parser)
       THEN LET d == declaration(parser) IN
            /\ parser' = d.self
            /\ ast' = IF d.res.some THEN Append(ast, d.res.v) ELSE ast
            /\ UNCHANGED <<stage, result, stack, entry, ret>>
       ELSE /\ parser' = parser
            /\ ast' = ast
            /\ IF parser.errors = <<>>
               THEN /\ stage' = "resolve"
                    /\ UNCHANGED <<result, stack, entry, ret>>
               ELSE Finish(Err(map_Parse(parser.errors)))
    /\ UNCHANGED <<scanner, scan, input, envs, environment, out>>

(***************************************************************************)
(* Inputs: the programs run_file is given, as the AST the grammar of the   *)
(* language yields for them (an if or while body is a statement, never a   *)
(* var or fun declaration).  Every expression is on line 1, at the column  *)
(* given first.                                                            *)
(***************************************************************************)
Num(c, n) == Literal(<<1, c>>, Lit_Number(n))
Str(c, s) == Literal(<<1, c>>, Lit_String(s))
Bool(c, b) == Literal(<<1, c>>, Lit_Boolean(b))
Nil(c) == Literal(<<1, c>>, Lit_Nil)
Var(c, name) == Variable(<<1, c>>, name)
Set(c, name, e) == Assign(<<1, c>>, name, e)
Bin(c, l, o, r) == Binary(<<1, c>>, l, o, r)
Un(c, o, r) == Unary(<<1, c>>, o, r)
App(c, f, args) == Call(<<1, c>>, f, args)
Say(c, text) == Stmt_Print(Str(c, text))

\* statement s inside the nest of wrappers ws, outermost first:
\*   Block: { print "in"; s print "BAD block"; }   If: if (true) s else print "BAD else";
\*   While: while (true) { print "iter"; s print "BAD loop"; }   Scope: { s }
\*   Then: if (true) s   Fun: fun w() { s }   Outer: { var a = 1; { s } }
\*   Never: while (false) s   Else: if (true) { var a = a; } else s
RECURSIVE Wrap(_, _)
Wrap(ws, s) ==
    IF ws = <<>> THEN s
    ELSE LET inner == Wrap(Tail(ws), s) IN
         CASE Head(ws) = "Block" ->
                 Stmt_Block(<<Say(90, "in"), inner, Say(91, "BAD block")>>)
           [] Head(ws) = "If" ->
                 Stmt_If(Bool(92, TRUE), inner, Some(Say(93, "BAD else")))
           [] Head(ws) = "While" ->
                 Stmt_While(Bool(94, TRUE),
                            Stmt_Block(<<Say(95, "iter"), inner, Say(96, "BAD loop")>>))
           [] Head(ws) = "Scope" -> Stmt_Block(<<inner>>)
           [] Head(ws) = "Then" -> Stmt_If(Bool(97, TRUE), inner, None)
           [] Head(ws) = "Fun" -> Stmt_Function("w", <<>>, <<inner>>)
           [] Head(ws) = "Outer" ->
                 Stmt_Block(<<Stmt_Var("a", Some(Num(98, 1))), Stmt_Block(<<inner>>)>>)
           [] Head(ws) = "Never" -> Stmt_While(Bool(99, FALSE), inner)
           [] Head(ws) = "Else" ->
                 Stmt_If(Bool(100, TRUE),
                         Stmt_Block(<<Stmt_Var("a", Some(Var(101, "a")))>>), Some(inner))

\* fun f(p) { var x = p; <ws around: return x + 1; or return;> print "BAD after"; return 0; }
\* print "before"; print f(41); print "after";
ReturnNest(ws, with_value) ==
    <<Stmt_Function("f", <<"p">>,
        <<Stmt_Var("x", Some(Var(10, "p"))),
          Wrap(ws, Stmt_Return(IF with_value
                               THEN Some(Bin(12, Var(11, "x"), "Add", Num(13, 1)))
                               ELSE None)),
          Say(14, "BAD after"),
          Stmt_Return(Some(Num(15, 0)))>>),
      Say(16, "before"),
      Stmt_Print(App(18, Var(17, "f"), <<Num(19, 41)>>)),
      Say(20, "after")>>

\* var a = "global";
\* { [var a = "outer";] <ws1 around: { fun show() { <ws2 around: { print a; }> }
\*                                     show(); var a = "local"; show(); print a; }> }
ShadowNest(in_block, ws1, ws2) ==
    <<Stmt_Var("a", Some(Str(10, "global"))),
      Stmt_Block(
        (IF in_block THEN <<Stmt_Var("a", Some(Str(11, "outer")))>> ELSE <<>>) \o
        <<Wrap(ws1, Stmt_Block(
            <<Stmt_Function("show", <<>>,
                <<Wrap(ws2, Stmt_Block(<<Stmt_Print(Var(12, "a"))>>))>>),
              Stmt_Expression(App(14, Var(13, "show"), <<>>)),
              Stmt_Var("a", Some(Str(15, "local"))),
              Stmt_Expression(App(17, Var(16, "show"), <<>>)),
              Stmt_Print(Var(18, "a"))>>))>>)>>

\* the statements of: <ws1 around: { fun f() { <ws2 around: { print a; a = a + 1; }> }
\*    fun g() { return a; }  f(); print g(); f(); f(); print a; }>  print a;
CounterBody(ws1, ws2) ==
    <<Wrap(ws1, Stmt_Block(
        <<Stmt_Function("f", <<>>,
            <<Wrap(ws2, Stmt_Block(
                <<Stmt_Print(Var(20, "a")),
                  Stmt_Expression(Set(22, "a", Bin(24, Var(23, "a"), "Add", Num(25, 1))))>>))>>),
          Stmt_Function("g", <<>>, <<Stmt_Return(Some(Var(26, "a")))>>),
          Stmt_Expression(App(28, Var(27, "f"), <<>>)),
          Stmt_Print(App(30, Var(29, "g"), <<>>)),
          Stmt_Expression(App(32, Var(31, "f"), <<>>)),
          Stmt_Expression(App(34, Var(33, "f"), <<>>)),
          Stmt_Print(Var(35, "a"))>>)),
      Stmt_Print(Var(36, "a"))>>

\* var a = 1; <CounterBody>      or      { var a = 1; <CounterBody> }
CounterNest(in_block, ws1, ws2) ==
    IF in_block
    THEN <<Stmt_Block(<<Stmt_Var("a", Some(Num(10, 1)))>> \o CounterBody(ws1, ws2))>>
    ELSE <<Stmt_Var("a", Some(Num(10, 1)))>> \o CounterBody(ws1, ws2)

\* the operand expressions of the add family, by name
OperandNames == {"1", "2", "a", "b", "true", "nil", "clock"}

Operand(c, name) ==
    CASE name = "1" -> Num(c, 1)
      [] name = "2" -> Num(c, 2)
      [] name = "a" -> Str(c, "a")
      [] name = "b" -> Str(c, "b")
      [] name = "true" -> Bool(c, TRUE)
      [] name = "nil" -> Nil(c)
      [] name = "clock" -> Var(c, "clock")

\* print "before"; print <l> + <r>; print "after";
AddOperands(l, r) ==
    <<Say(1, "before"),
      Stmt_Print(Bin(20, Operand(10, l), "Add", Operand(30, r))),
      Say(40, "after")>>

\* the expressions that read a, by name; the read is at column 50
ReadForms == {"read", "binary", "grouping", "unary", "call_arg", "assign_value"}

ReadOf(form) ==
    CASE form = "read" -> Var(50, "a")
      [] form = "binary" -> Bin(51, Num(49, 1), "Add", Var(50, "a"))
      [] form = "grouping" -> Grouping(<<1, 49>>, Var(50, "a"))
      [] form = "unary" -> Un(49, "Minus", Var(50, "a"))
      [] form = "call_arg" -> App(49, Var(48, "debug"), <<Var(50, "a")>>)
      [] form = "assign_value" -> Set(49, "c", Var(50, "a"))

\* var a = 1; var c; <ws around: var a = <an expression that reads a>;>
OwnInitializer(ws, form) ==
    <<Stmt_Var("a", Some(Num(10, 1))), Stmt_Var("c", None),
      Wrap(ws, Stmt_Var("a", Some(ReadOf(form))))>>

\* var a = 1; <ws around: var a = (a = 2);>
OwnAssignment(ws) ==
    <<Stmt_Var("a", Some(Num(10, 1))),
      Wrap(ws, Stmt_Var("a", Some(Grouping(<<1, 49>>, Set(50, "a", Num(52, 2))))))>>

\* a declaration of a: var a;  fun a() {}  fun f(a) {}  fun f(a, a) {}
Declaration(kind) ==
    CASE kind = "var" -> Stmt_Var("a", None)
      [] kind = "fun" -> Stmt_Function("a", <<>>, <<>>)
      [] kind = "param" -> Stmt_Function("f", <<"a">>, <<>>)
      [] kind = "params" -> Stmt_Function("f", <<"a", "a">>, <<>>)

\* where = "top":   <first> <second>                   (no scope pushed)
\* where = "same":  <ws around: { <first> <second> }>
\* where = "inner": <ws around: { <first> { <second> } }>
Redeclare(ws, first, second, where) ==
    CASE where = "top" -> <<Declaration(first), Declaration(second)>>
      [] where = "same" -> <<Wrap(ws, Stmt_Block(<<Declaration(first), Declaration(second)>>))>>
      [] where = "inner" ->
            <<Wrap(ws, Stmt_Block(<<Declaration(first),
                                    Stmt_Block(<<Declaration(second)>>)>>))>>

\* the statements before the return of ReturnPlace:
\*   fun: fun g() { return; }   bad_fun: fun g() { var a = a; return; }
ReturnPrefix(prefix) ==
    CASE prefix = "none" -> <<>>
      [] prefix = "fun" -> <<Stmt_Function("g", <<>>, <<Stmt_Return(None)>>)>>
      [] prefix = "bad_fun" ->
            <<Stmt_Function("g", <<>>, <<Stmt_Var("a", Some(Var(102, "a"))),
                                         Stmt_Return(None)>>)>>

\* <prefix> <ws around: return;>
ReturnPlace(ws, prefix) == ReturnPrefix(prefix) \o <<Wrap(ws, Stmt_Return(None))>>

\* the operand expressions of the equality family, by name: g holds the function f of
\* the top level, f is the function f of the block, h is a third function
CallableNames == {"g", "f", "h", "clock", "debug"}
EqualityNames == CallableNames \cup {"nil", "text"}

EqualityOperand(c, name) ==
    CASE name = "nil" -> Nil(c)
      [] name = "text" -> Str(c, "f")
      [] OTHER -> Var(c, name)

\* fun f() {} var g = f; fun h() {} { fun f() {} print <l> == <r>; print <l> != <r>; }
CallableEquality(l, r) ==
    <<Stmt_Function("f", <<>>, <<>>),
      Stmt_Var("g", Some(Var(10, "f"))),
      Stmt_Function("h", <<>>, <<>>),
      Stmt_Block(<<Stmt_Function("f", <<>>, <<>>),
                   Stmt_Print(Bin(30, EqualityOperand(20, l), "Equals",
                                  EqualityOperand(40, r))),
                   Stmt_Print(Bin(60, EqualityOperand(50, l), "NotEquals",
                                  EqualityOperand(70, r)))>>)>>

\* the values called by the call_order family, by name: f is a function of two
\* parameters, clock and debug are the natives
CalleeNames == {"f", "clock", "debug", "nil", "text", "1"}

CalleeOperand(c, name) ==
    CASE name = "nil" -> Nil(c)
      [] name = "text" -> Str(c, "f")
      [] name = "1" -> Num(c, 1)
      [] OTHER -> Var(c, name)

\* the arguments t(1), ..., t(n)
TraceArgs(n) == [i \in 1..n |-> App(60 + i, Var(50, "t"), <<Num(70 + i, i)>>)]

\* fun f(p, q) { print "body"; }  fun t(x) { print x; return x; }
\* fun c(x) { print "callee"; return x; }
\* c(<callee>)(t(1), ..., t(n)); print "after";
CallOrder(callee, n) ==
    <<Stmt_Function("f", <<"p", "q">>, <<Say(10, "body")>>),
      Stmt_Function("t", <<"x">>, <<Stmt_Print(Var(11, "x")), Stmt_Return(Some(Var(12, "x")))>>),
      Stmt_Function("c", <<"x">>, <<Say(13, "callee"), Stmt_Return(Some(Var(14, "x")))>>),
      Stmt_Expression(App(40, App(30, Var(20, "c"), <<CalleeOperand(25, callee)>>),
                          TraceArgs(n))),
      Say(90, "after")>>

\* the expressions of the fail_fast family, by the error their evaluation raises:
\*   -"s"   "s" - 1   zz   clock(1)
FailingKinds == {"TypeError", "TypeErrorMultiple", "UndefinedVariable", "WrongArgsNum"}

FailingExpression(kind) ==
    CASE kind = "TypeError" -> Un(40, "Minus", Str(41, "s"))
      [] kind = "TypeErrorMultiple" -> Bin(40, Str(39, "s"), "Subtract", Num(41, 1))
      [] kind = "UndefinedVariable" -> Var(40, "zz")
      [] kind = "WrongArgsNum" -> App(40, Var(39, "clock"), <<Num(41, 1)>>)

\* fun mark() { print "BAD operand"; return 1; }  var a = 1; print "before"; a = 2;
\* <ws around: print <failing> == mark();>  a = 3; print "BAD after";
FailFast(ws, kind) ==
    <<Stmt_Function("mark", <<>>, <<Say(10, "BAD operand"), Stmt_Return(Some(Num(11, 1)))>>),
      Stmt_Var("a", Some(Num(12, 1))),
      Say(13, "before"),
      Stmt_Expression(Set(14, "a", Num(15, 2))),
      Wrap(ws, Stmt_Print(Bin(50, FailingExpression(kind), "Equals", App(61, Var(60, "mark"), <<>>)))),
      Stmt_Expression(Set(70, "a", Num(71, 3))),
      Say(72, "BAD after")>>

\* { var <name> = <name>; } with the read at column c: one VariableOwnInitializer
OwnRead(name, c) == Stmt_Block(<<Stmt_Var(name, Some(Var(c, name)))>>)

ErrorPlaces == {"statements", "branches", "then_later", "loop"}

\* two scope errors, at columns 20 and 30, in different parts of the program:
\*   statements: { var a = a; } print "x"; { var b = b; }
\*   branches:   if (true) { var a = a; } else { var b = b; }
\*   then_later: if (true) { var a = a; }  { var b = b; }
\*   loop:       var a = a; while (a) { var b = b; }     (a read of a in the condition)
TwoErrors(ws, place) ==
    <<Say(10, "before"),
      Wrap(ws, Stmt_Block(
          CASE place = "statements" -> <<OwnRead("a", 20), Say(25, "x"), OwnRead("b", 30)>>
            [] place = "branches" ->
                  <<Stmt_If(Bool(15, TRUE), OwnRead("a", 20), Some(OwnRead("b", 30)))>>
            [] place = "then_later" ->
                  <<Stmt_If(Bool(15, TRUE), OwnRead("a", 20), None), OwnRead("b", 30)>>
            [] place = "loop" ->
                  <<Stmt_Var("a", Some(Var(15, "a"))),
                    Stmt_While(Var(20, "a"), OwnRead("b", 30))>>))>>

\* <ws around: { var a = <an expression that reads a>; print a; }>, the later read at
\* column 60
LaterRead(ws, form) ==
    <<Say(10, "before"),
      Wrap(ws, Stmt_Block(<<Stmt_Var("a", Some(ReadOf(form))), Stmt_Print(Var(60, "a"))>>))>>

\* f(); as a statement
CallStmt(c, name, args) == Stmt_Expression(App(c + 1, Var(c, name), args))

\* the fixed programs
Fixed(name) ==
    CASE name = "arith" ->          \* print 1 + 2 * 3;
            <<Stmt_Print(Bin(9, Num(7, 1), "Add", Bin(13, Num(11, 2), "Multiply", Num(15, 3))))>>
      [] name = "counter" ->        \* var a = 1; fun f() { print a; a = a + 1; } f(); f(); f();
            <<Stmt_Var("a", Some(Num(9, 1))),
              Stmt_Function("f", <<>>,
                <<Stmt_Print(Var(10, "a")),
                  Stmt_Expression(Set(12, "a", Bin(14, Var(13, "a"), "Add", Num(15, 1))))>>),
              CallStmt(20, "f", <<>>), CallStmt(30, "f", <<>>), CallStmt(40, "f", <<>>)>>
      [] name = "shadow" ->
            \* var a = "global"; { fun show() { print a; } show(); var a = "local"; show(); }
            <<Stmt_Var("a", Some(Str(9, "global"))),
              Stmt_Block(<<Stmt_Function("show", <<>>, <<Stmt_Print(Var(10, "a"))>>),
                           CallStmt(20, "show", <<>>),
                           Stmt_Var("a", Some(Str(25, "local"))),
                           CallStmt(30, "show", <<>>)>>)>>
      [] name = "for" ->            \* for (var i = 0; i < 3; i = i + 1) print i;
            <<Stmt_Block(
                <<Stmt_Var("i", Some(Num(14, 0))),
                  Stmt_While(Bin(19, Var(17, "i"), "Less", Num(21, 3)),
                    Stmt_Block(
                      <<Stmt_Print(Var(42, "i")),
                        Stmt_Expression(Set(26, "i",
                            Bin(30, Var(28, "i"), "Add", Num(32, 1))))>>))>>)>>
      [] name = "first" ->
            \* fun first(xs) { while (true) { return 42; } return 0; } print first(nil);
            <<Stmt_Function("first", <<"xs">>,
                <<Stmt_While(Bool(10, TRUE), Stmt_Block(<<Stmt_Return(Some(Num(11, 42)))>>)),
                  Stmt_Return(Some(Num(12, 0)))>>),
              Stmt_Print(App(21, Var(20, "first"), <<Nil(22)>>))>>
      [] name = "type_error" ->     \* print "a" - 1;
            <<Stmt_Print(Bin(11, Str(7, "a"), "Subtract", Num(13, 1)))>>
      [] name = "own_assign" ->     \* { var a = a = 1; print a; }
            <<Stmt_Block(<<Stmt_Var("a", Some(Set(11, "a", Num(15, 1)))),
                           Stmt_Print(Var(20, "a"))>>)>>
      [] name = "own_read" ->       \* { var a = a; }
            <<Stmt_Block(<<Stmt_Var("a", Some(Var(11, "a")))>>)>>
      [] name = "assign_undefined" ->   \* a = 1; print a; print "after";
            <<Stmt_Expression(Set(3, "a", Num(5, 1))),
              Stmt_Print(Var(10, "a")),
              Say(20, "after")>>
      [] name = "assign_undefined_fun" ->   \* fun f() { b = 2; } f(); print b;
            <<Stmt_Function("f", <<>>, <<Stmt_Expression(Set(12, "b", Num(14, 2)))>>),
              CallStmt(20, "f", <<>>),
              Stmt_Print(Var(30, "b"))>>
      [] name = "and_false" ->      \* var a = false; print false and (a = true); print a;
            <<Stmt_Var("a", Some(Bool(9, FALSE))),
              Stmt_Print(Bin(28, Bool(22, FALSE), "And",
                             Grouping(32, Set(35, "a", Bool(37, TRUE))))),
              Stmt_Print(Var(50, "a"))>>
      [] name = "or_true" ->
            \* fun side() { print "side"; return true; } print true or side(); print "end";
            <<Stmt_Function("side", <<>>, <<Say(10, "side"), Stmt_Return(Some(Bool(11, TRUE)))>>),
              Stmt_Print(Bin(25, Bool(20, TRUE), "Or", App(29, Var(28, "side"), <<>>))),
              Say(40, "end")>>
      [] name = "and_error" ->      \* print false and 1;
            <<Stmt_Print(Bin(13, Bool(7, FALSE), "And", Num(17, 1)))>>
      [] name = "logic" ->          \* print true and false; print false or true;
            <<Stmt_Print(Bin(12, Bool(7, TRUE), "And", Bool(16, FALSE))),
              Stmt_Print(Bin(30, Bool(24, FALSE), "Or", Bool(33, TRUE)))>>
      [] name = "top_return" ->     \* print "x"; return 1;
            <<Say(7, "x"), Stmt_Return(Some(Num(20, 1)))>>
      [] name = "return_after_fun" ->   \* fun f() { return; } print f(); return;
            <<Stmt_Function("f", <<>>, <<Stmt_Return(None)>>),
              Stmt_Print(App(21, Var(20, "f"), <<>>)),
              Stmt_Return(None)>>
      [] name = "nested_calls" ->
            \* fun inner() { return 1; print "BAD inner"; }
            \* fun outer() { var x = inner(); print "outer goes on"; return x + 1; }
            \* print outer();
            <<Stmt_Function("inner", <<>>, <<Stmt_Return(Some(Num(10, 1))), Say(11, "BAD inner")>>),
              Stmt_Function("outer", <<>>,
                <<Stmt_Var("x", Some(App(21, Var(20, "inner"), <<>>))),
                  Say(22, "outer goes on"),
                  Stmt_Return(Some(Bin(24, Var(23, "x"), "Add", Num(25, 1))))>>),
              Stmt_Print(App(31, Var(30, "outer"), <<>>))>>
      [] name = "recursion" ->
            \* fun f(n) { var l = n * 10; if (n > 0) f(n - 1); print n; print l; } f(2);
            <<Stmt_Function("f", <<"n">>,
                <<Stmt_Var("l", Some(Bin(11, Var(10, "n"), "Multiply", Num(12, 10)))),
                  Stmt_If(Bin(14, Var(13, "n"), "Greater", Num(15, 0)),
                          Stmt_Expression(App(17, Var(16, "f"),
                              <<Bin(19, Var(18, "n"), "Subtract", Num(20, 1))>>)),
                          None),
                  Stmt_Print(Var(21, "n")),
                  Stmt_Print(Var(22, "l"))>>),
              CallStmt(30, "f", <<Num(32, 2)>>)>>
      [] name = "activations" ->
            \* fun make(n) { var l = n; fun get() { l = l + 1; return l; } return get; }
            \* var g1 = make(10); var g2 = make(20); print g1(); print g2(); print g1();
            <<Stmt_Function("make", <<"n">>,
                <<Stmt_Var("l", Some(Var(10, "n"))),
                  Stmt_Function("get", <<>>,
                    <<Stmt_Expression(Set(11, "l", Bin(13, Var(12, "l"), "Add", Num(14, 1)))),
                      Stmt_Return(Some(Var(15, "l")))>>),
                  Stmt_Return(Some(Var(16, "get")))>>),
              Stmt_Var("g1", Some(App(21, Var(20, "make"), <<Num(22, 10)>>))),
              Stmt_Var("g2", Some(App(31, Var(30, "make"), <<Num(32, 20)>>))),
              Stmt_Print(App(41, Var(40, "g1"), <<>>)),
              Stmt_Print(App(51, Var(50, "g2"), <<>>)),
              Stmt_Print(App(61, Var(60, "g1"), <<>>))>>
      [] name = "block_error" ->
            \* fun f() { { var a = 1; { print a - "s"; } } } { f(); } print "BAD unreached";
            <<Stmt_Function("f", <<>>,
                <<Stmt_Block(<<Stmt_Var("a", Some(Num(10, 1))),
                               Stmt_Block(<<Stmt_Print(Bin(12, Var(11, "a"), "Subtract",
                                                           Str(13, "s")))>>)>>)>>),
              Stmt_Block(<<CallStmt(20, "f", <<>>)>>),
              Say(30, "BAD unreached")>>
      [] name = "natives" ->        \* print debug(1); clock(); print clock() > 0; print debug;
            <<Stmt_Print(App(8, Var(7, "debug"), <<Num(9, 1)>>)),
              CallStmt(20, "clock", <<>>),
              Stmt_Print(Bin(33, App(31, Var(30, "clock"), <<>>), "Greater", Num(35, 0))),
              Stmt_Print(Var(40, "debug"))>>
      [] name = "operators" ->
            \* var u; print u; print -1; print !true; print 1 == 1; print "x" != "y";
            \* print 4 / 2; print 1 <= 2; print 2 >= 3; print "a" + "b"; print (1 < 2);
            <<Stmt_Var("u", None), Stmt_Print(Var(5, "u")),
              Stmt_Print(Un(10, "Minus", Num(11, 1))),
              Stmt_Print(Un(12, "Not", Bool(13, TRUE))),
              Stmt_Print(Bin(15, Num(14, 1), "Equals", Num(16, 1))),
              Stmt_Print(Bin(18, Str(17, "x"), "NotEquals", Str(19, "y"))),
              Stmt_Print(Bin(21, Num(20, 4), "Divide", Num(22, 2))),
              Stmt_Print(Bin(24, Num(23, 1), "LessEquals", Num(25, 2))),
              Stmt_Print(Bin(27, Num(26, 2), "GreaterEquals", Num(28, 3))),
              Stmt_Print(Bin(30, Str(29, "a"), "Add", Str(31, "b"))),
              Stmt_Print(Grouping(32, Bin(34, Num(33, 1), "Less", Num(35, 2))))>>
      [] name = "bad_callee" ->     \* "x"(clock());
            <<Stmt_Expression(App(4, Str(1, "x"), <<App(6, Var(5, "clock"), <<>>)>>))>>
      [] name = "wrong_args" ->     \* fun f(a) { print "BAD body"; } f(1, 2);
            <<Stmt_Function("f", <<"a">>, <<Say(10, "BAD body")>>),
              CallStmt(20, "f", <<Num(22, 1), Num(24, 2)>>)>>
      [] name = "unary_error" ->    \* print -"a";
            <<Stmt_Print(Un(7, "Minus", Str(8, "a")))>>
      [] name = "undefined_read" -> \* print zz;
            <<Stmt_Print(Var(7, "zz"))>>
      [] name = "if_else" ->        \* if (false) print 1; else print 2; if (1) print 3;
            <<Stmt_If(Bool(5, FALSE), Stmt_Print(Num(10, 1)), Some(Stmt_Print(Num(20, 2)))),
              Stmt_If(Num(30, 1), Stmt_Print(Num(35, 3)), None)>>
      [] name = "while_error" ->    \* while (nil) {}
            <<Stmt_While(Nil(8), Stmt_Block(<<>>))>>
      [] name = "redeclare" ->      \* { var a; var a; }
            <<Stmt_Block(<<Stmt_Var("a", None), Stmt_Var("a", None)>>)>>

FixedNames ==
    {"arith", "counter", "shadow", "for", "first", "type_error", "own_assign", "own_read",
     "assign_undefined", "assign_undefined_fun", "and_false", "or_true", "and_error", "logic",
     "top_return", "return_after_fun", "nested_calls", "recursion", "activations",
     "block_error", "natives", "operators", "bad_callee", "wrong_args", "unary_error",
     "undefined_read", "if_else", "while_error", "redeclare"}

\* sequences over S of length at most n
RECURSIVE SeqsUpTo(_, _)
SeqsUpTo(S, n) ==
    IF n = 0 THEN {<<>>}
    ELSE LET shorter == SeqsUpTo(S, n - 1) IN
         shorter \cup {Append(w, x) : w \in shorter, x \in S}

\* an input is a fixed program or a member of a family, with its nests of wrappers
Inputs ==
    [name : FixedNames, a : {<<>>}, b : {<<>>}]
    \cup [name : {"return_value", "return_nil"},
          a : SeqsUpTo({"Block", "If", "While"}, MaxNest), b : {<<>>}]
    \cup [name : {"shadow_global", "shadow_block", "counter_global", "counter_block"},
          a : SeqsUpTo({"Scope", "Then"}, MaxNest), b : SeqsUpTo({"Scope", "Then"}, MaxNest)]
    \cup [name : {"own_initializer"}, a : SeqsUpTo({"Scope", "Fun", "Outer"}, MaxNest),
          b : {<<form>> : form \in ReadForms}]
    \cup [name : {"own_assignment"}, a : SeqsUpTo({"Scope", "Fun", "Outer"}, MaxNest),
          b : {<<>>}]
    \cup [name : {"redeclaration"}, a : SeqsUpTo({"Scope", "Fun", "Outer"}, MaxNest),
          b : {"var", "fun"} \X {"var", "fun", "param", "params"} \X {"same", "inner"}]
    \cup [name : {"redeclaration"}, a : {<<>>},
          b : {"var", "fun"} \X {"var", "fun", "param", "params"} \X {"top"}]
    \cup [name : {"return_place"},
          a : SeqsUpTo({"Scope", "Then", "If", "Never", "Fun", "Else"}, MaxNest),
          b : {<<"none">>, <<"fun">>, <<"bad_fun">>}]
    \cup [name : {"callable_equality"}, a : {<<l>> : l \in EqualityNames},
          b : {<<r>> : r \in EqualityNames}]
    \cup [name : {"call_order"}, a : {<<callee>> : callee \in CalleeNames},
          b : {<<n>> : n \in 0..MaxArgs}]
    \cup [name : {"fail_fast"}, a : SeqsUpTo({"Block", "If", "While"}, MaxNest),
          b : {<<kind>> : kind \in FailingKinds}]
    \cup [name : {"two_errors"}, a : SeqsUpTo({"Scope", "Then", "Fun"}, MaxNest),
          b : {<<place>> : place \in ErrorPlaces}]
    \cup [name : {"later_read"}, a : SeqsUpTo({"Scope", "Fun", "Outer"}, MaxNest),
          b : {<<form>> : form \in ReadForms}]
    \cup [name : {"add"}, a : {<<l>> : l \in OperandNames}, b : {<<r>> : r \in OperandNames}]

ProgramOf(i) ==
    CASE i.name = "return_value" -> ReturnNest(i.a, TRUE)
      [] i.name = "return_nil" -> ReturnNest(i.a, FALSE)
      [] i.name = "shadow_global" -> ShadowNest(FALSE, i.a, i.b)
      [] i.name = "shadow_block" -> ShadowNest(TRUE, i.a, i.b)
      [] i.name = "counter_global" -> CounterNest(FALSE, i.a, i.b)
      [] i.name = "counter_block" -> CounterNest(TRUE, i.a, i.b)
      [] i.name = "add" -> AddOperands(i.a[1], i.b[1])
      [] i.name = "own_initializer" -> OwnInitializer(i.a, i.b[1])
      [] i.name = "own_assignment" -> OwnAssignment(i.a)
      [] i.name = "return_place" -> ReturnPlace(i.a, i.b[1])
      [] i.name = "callable_equality" -> CallableEquality(i.a[1], i.b[1])
      [] i.name = "call_order" -> CallOrder(i.a[1], i.b[1])
      [] i.name = "fail_fast" -> FailFast(i.a, i.b[1])
      [] i.name = "two_errors" -> TwoErrors(i.a, i.b[1])
      [] i.name = "later_read" -> LaterRead(i.a, i.b[1])
      [] i.name = "redeclaration" -> Redeclare(i.a, i.b[1], i.b[2], i.b[3])
      [] OTHER -> Fixed(i.name)

(***************************************************************************)
(* The run of one file: run_file makes the interpreter and calls run.      *)
(***************************************************************************)
Init ==
    /\ input \in Inputs
    /\ ast = ProgramOf(input)
    /\ stage = "resolve"
    /\ result = None
    /\ envs = Interpreter_new.envs
    /\ environment = Interpreter_new.environment
    /\ stack = <<>>
    /\ entry = <<>>
    /\ ret = NoRet
    /\ out = <<>>
    /\ scanner = Scanner_new(<<>>)
    /\ scan = [pc |-> "idle", tokens |-> <<>>, errors |-> <<>>, overflow_checks |-> FALSE]
    /\ parser = Parser_new(<<>>)

Next ==
    \/ Resolve
    \/ interpret
    \/ execute
    \/ execute_statement_var
    \/ execute_block_statement
    \/ execute_block
    \/ execute_if
    \/ execute_while
    \/ execute_fun
    \/ execute_return
    \/ evaluate
    \/ evaluate_assign
    \/ evaluate_unary
    \/ evaluate_binary
    \/ evaluate_call
    \/ call

Spec == Init /\ [][Next]_vars

(***************************************************************************)
(* Scanner::tokens on its own: Scanner::new(source) for every source of at *)
(* most MaxSrcLen chars of Alphabet, built with and without overflow       *)
(* checks.                                                                 *)
(***************************************************************************)
Alphabet == {"(", "=", "/", " ", "\n", "\"", "1", ".", "a", "@", "U+00E9"}

Sources == SeqsUpTo(Alphabet, MaxSrcLen)

InitScan ==
    /\ scanner \in {Scanner_new(source) : source \in Sources}
    /\ scan \in [pc : {"loop"}, tokens : {<<>>}, errors : {<<>>}, overflow_checks : BOOLEAN]
    /\ parser = Parser_new(<<>>)
    /\ input = [name |-> "none", a |-> <<>>, b |-> <<>>]
    /\ ast = <<>>
    /\ stage = "scan"
    /\ result = None
    /\ envs = <<>>
    /\ environment = 0
    /\ stack = <<>>
    /\ entry = <<>>
    /\ ret = NoRet
    /\ out = <<>>

NextScan == tokens

SpecScan == InitScan /\ [][NextScan]_vars

(***************************************************************************)
(* The run of one source text through run(): Scanner::tokens, Parser::parse,*)
(* Resolver::resolve and Interpreter::interpret.  A source is the sequence *)
(* of its chars.  The grammar of parser.rs has no fun, return or call, so  *)
(* these runs have no function in them.                                    *)
(***************************************************************************)
\* var i = 0; 
Text_global_i ==
    <<"v", "a", "r", " ", "i", " ", "=", " ", "0", ";", " ">>

\* for (
Text_for ==
    <<"f", "o", "r", " ", "(">>

\* var i = 0;
Text_init_var ==
    <<"v", "a", "r", " ", "i", " ", "=", " ", "0", ";">>

\* i = 0;
Text_init_expression ==
    <<"i", " ", "=", " ", "0", ";">>

\* ;
Text_semicolon ==
    <<";">>

\*  i < 3
Text_condition ==
    <<" ", "i", " ", "<", " ", "3">>

\*  i = i + 1
Text_increment ==
    <<" ", "i", " ", "=", " ", "i", " ", "+", " ", "1">>

\* ) 
Text_close ==
    <<")", " ">>

\* print i;
Text_body_print ==
    <<"p", "r", "i", "n", "t", " ", "i", ";">>

\* { i = i + 1; print i; }
Text_body_stepping ==
    <<"{", " ", "i", " ", "=", " ", "i", " ", "+", " ", "1", ";", " ", "p", "r", "i", "n", "t",
      " ", "i", ";", " ", "}">>

\* { print i; if (i > 1) stop; }
Text_body_stopping ==
    <<"{", " ", "p", "r", "i", "n", "t", " ", "i", ";", " ", "i", "f", " ", "(", "i", " ", ">",
      " ", "1", ")", " ", "s", "t", "o", "p", ";", " ", "}">>

\* { i = i + 1; print i; if (i > 2) stop; }
Text_body_stepping_stopping ==
    <<"{", " ", "i", " ", "=", " ", "i", " ", "+", " ", "1", ";", " ", "p", "r", "i", "n", "t",
      " ", "i", ";", " ", "i", "f", " ", "(", "i", " ", ">", " ", "2", ")", " ", "s", "t", "o",
      "p", ";", " ", "}">>

\* [var i = 0;] for (<init> <cond>; <step>) <body>, each part present or omitted: init
\* is "var", "expression" or "none", cond and step are "some" or "none".  The body makes
\* the step when the clause is omitted, and without a condition it ends the loop by
\* reading the undefined variable stop
ForSource(init, cond, step) ==
    (IF init = "var" THEN <<>> ELSE Text_global_i)
    \o Text_for
    \o (CASE init = "var" -> Text_init_var
          [] init = "expression" -> Text_init_expression
          [] init = "none" -> Text_semicolon)
    \o (IF cond = "some" THEN Text_condition ELSE <<>>) \o Text_semicolon
    \o (IF step = "some" THEN Text_increment ELSE <<>>) \o Text_close
    \o (CASE cond = "some" /\ step = "some" -> Text_body_print
          [] cond = "some" /\ step = "none" -> Text_body_stepping
          [] cond = "none" /\ step = "some" -> Text_body_stopping
          [] cond = "none" /\ step = "none" -> Text_body_stepping_stopping)

\* print 1; 
Text_ok ==
    <<"p", "r", "i", "n", "t", " ", "1", ";", " ">>

\* print 2 @ 3; 
Text_lexer_error ==
    <<"p", "r", "i", "n", "t", " ", "2", " ", "@", " ", "3", ";", " ">>

\* print ; 
Text_parser_error ==
    <<"p", "r", "i", "n", "t", " ", ";", " ">>

\* { var a = a; } 
Text_resolver_error ==
    <<"{", " ", "v", "a", "r", " ", "a", " ", "=", " ", "a", ";", " ", "}", " ">>

\* print -nil; 
Text_runtime_error ==
    <<"p", "r", "i", "n", "t", " ", "-", "n", "i", "l", ";", " ">>

\* var a = 1; { var b = a + 2; print b * 2; } if (a == 1) print "x"; else print !true;\nwhile (a < 2) a = a + 1; // done
Text_statements ==
    <<"v", "a", "r", " ", "a", " ", "=", " ", "1", ";", " ", "{", " ", "v", "a", "r", " ", "b",
      " ", "=", " ", "a", " ", "+", " ", "2", ";", " ", "p", "r", "i", "n", "t", " ", "b", " ",
      "*", " ", "2", ";", " ", "}", " ", "i", "f", " ", "(", "a", " ", "=", "=", " ", "1", ")",
      " ", "p", "r", "i", "n", "t", " ", "\"", "x", "\"", ";", " ", "e", "l", "s", "e", " ",
      "p", "r", "i", "n", "t", " ", "!", "t", "r", "u", "e", ";", "\n", "w", "h", "i", "l",
      "e", " ", "(", "a", " ", "<", " ", "2", ")", " ", "a", " ", "=", " ", "a", " ", "+", " ",
      "1", ";", " ", "/", "/", " ", "d", "o", "n", "e">>

\* run_file, given what run returned: the errors are printed to stderr and Ok(()) is
\* returned; a panic inside run unwinds through it
run_file(r) == IF ~r.ok /\ r.panic THEN r ELSE Ok(Unit)

\* the exit code of the process, given what main returns: 0 for Ok(()), 1 for Err (the
\* Termination impl of Result), 101 for a panic
main(r) == IF r.ok THEN 0 ELSE IF r.panic THEN 101 ELSE 1

\* the pieces a source of the pieces family is made of: a statement that runs, and one
\* each that the scanner, the parser, the resolver and the interpreter reports
PieceNames == {"ok", "lexer_error", "parser_error", "resolver_error", "runtime_error"}

Piece(name) ==
    CASE name = "ok" -> Text_ok
      [] name = "lexer_error" -> Text_lexer_error
      [] name = "parser_error" -> Text_parser_error
      [] name = "resolver_error" -> Text_resolver_error
      [] name = "runtime_error" -> Text_runtime_error

RECURSIVE Pieces(_)
Pieces(names) == IF names = <<>> THEN <<>> ELSE Piece(Head(names)) \o Pieces(Tail(names))

\* the inputs of the run of a source text
RunInputs ==
    [name : {"for"}, a : {"var", "expression", "none"} \X {"some", "none"},
     b : {<<"some">>, <<"none">>}]
    \cup [name : {"pieces"}, a : SeqsUpTo(PieceNames, MaxPieces), b : {<<>>}]
    \cup [name : {"statements"}, a : {<<>>}, b : {<<>>}]

SourceOf(i) ==
    CASE i.name = "for" -> ForSource(i.a[1], i.a[2], i.b[1])
      [] i.name = "pieces" -> Pieces(i.a)
      [] i.name = "statements" -> Text_statements

InitRun ==
    /\ input \in RunInputs
    /\ scanner = Scanner_new(SourceOf(input))
    /\ scan = [pc |-> "loop", tokens |-> <<>>, errors |-> <<>>, overflow_checks |-> FALSE]
    /\ parser = Parser_new(<<>>)
    /\ ast = <<>>
    /\ stage = "scan"
    /\ result = None
    /\ envs = Interpreter_new.envs
    /\ environment = Interpreter_new.environment
    /\ stack = <<>>
    /\ entry = <<>>
    /\ ret = NoRet
    /\ out = <<>>

NextRun ==
    \/ tokens
    \/ run
    \/ parse
    \/ Resolve
    \/ interpret
    \/ execute
    \/ execute_statement_var
    \/ execute_block_statement
    \/ execute_block
    \/ execute_if
    \/ execute_while
    \/ evaluate
    \/ evaluate_assign
    \/ evaluate_unary
    \/ evaluate_binary

SpecRun == InitRun /\ [][NextRun]_vars

(***************************************************************************)
(* Parser::parse on a token vector that ends with its only EOF token, and  *)
(* the rest of run() on what it returns.  A token is named by its lexeme.  *)
(***************************************************************************)
TokenNamed(name) ==
    CASE name \in {"1", "2", "3"} ->
            Token_Literal(Lit_Number([n |-> IF name = "1" THEN 1 ELSE IF name = "2" THEN 2 ELSE 3,
                                      frac |-> 0]))
      [] name \in {"a", "b", "c", "d", "e"} -> Token_Identifier(name)
      [] name = "=" -> Token_Symbol("Equal")
      [] name = "+" -> Token_Symbol("Plus")
      [] name = "-" -> Token_Symbol("Minus")
      [] name = "*" -> Token_Symbol("Star")
      [] name = "/" -> Token_Symbol("Slash")
      [] name = "!" -> Token_Symbol("Bang")
      [] name = "==" -> Token_Symbol("EqualEqual")
      [] name = "!=" -> Token_Symbol("BangEqual")
      [] name = "<" -> Token_Symbol("Less")
      [] name = "<=" -> Token_Symbol("LessEqual")
      [] name = ">" -> Token_Symbol("Greater")
      [] name = ">=" -> Token_Symbol("GreaterEqual")
      [] name = "(" -> Token_Symbol("LeftParen")
      [] name = ")" -> Token_Symbol("RightParen")
      [] name = "{" -> Token_Symbol("LeftBrace")
      [] name = "}" -> Token_Symbol("RightBrace")
      [] name = ";" -> Token_Symbol("Semicolon")
      [] name = "," -> Token_Symbol("Comma")
      [] OTHER -> Token_Keyword(Keyword_from_word(name).v)

\* the tokens named, the i-th at column i of line 1, and the EOF token after them
TokenVector(names) ==
    [i \in 1..Len(names) + 1 |->
        IF i <= Len(names) THEN CodeToken(TokenNamed(names[i]), <<1, i>>, names[i])
        ELSE CodeToken(Token_Eof, <<1, i>>, "")]

\* the tokens that the vectors of the tokens family are made of
TokenAlphabet == {"1", "a", "=", "+", ")", ";", "{", "}", "print", "var"}

\* the left sides of the lvalue family, by name, and the places of the assignment
LvalueNames == {"literal", "grouping", "minus", "not", "sum", "equality", "or"}
LvaluePlaces == {"expression", "print", "var", "block"}

LvalueTokens(lhs) ==
    CASE lhs = "literal" -> <<"1">>
      [] lhs = "grouping" -> <<"(", "a", ")">>
      [] lhs = "minus" -> <<"-", "a">>
      [] lhs = "not" -> <<"!", "a">>
      [] lhs = "sum" -> <<"a", "+", "b">>
      [] lhs = "equality" -> <<"a", "==", "b">>
      [] lhs = "or" -> <<"a", "or", "b">>

LvaluePrefix(place) ==
    CASE place = "expression" -> <<>>
      [] place = "print" -> <<"print">>
      [] place = "var" -> <<"var", "c", "=">>
      [] place = "block" -> <<"{">>

\* <lhs> = 2 ;   print <lhs> = 2 ;   var c = <lhs> = 2 ;   { <lhs> = 2 ; }
\* and print 3 ; after it
LvalueStatement(lhs, place) ==
    LvaluePrefix(place) \o LvalueTokens(lhs) \o <<"=", "2", ";">>
    \o (IF place = "block" THEN <<"}">> ELSE <<>>) \o <<"print", "3", ";">>

\* the operators of the precedence family, and the sequences of them in which an =
\* follows only = (its left side is one variable)
BinaryOperators == {"or", "and", "==", "!=", "<", "<=", ">", ">=", "+", "-", "*", "/"}

OperatorSequences ==
    {ops \in SeqsUpTo(BinaryOperators \cup {"="}, MaxOperators) :
        /\ ops # <<>>
        /\ \A k \in 1..Len(ops) : ops[k] = "=" => \A h \in 1..k : ops[h] = "="}

OperandNamed == <<"a", "b", "c", "d", "e">>

\* a op1 b op2 c ... ;
RECURSIVE Operation(_, _)
Operation(ops, i) ==
    IF i > Len(ops) THEN <<OperandNamed[i], ";">>
    ELSE <<OperandNamed[i], ops[i]>> \o Operation(ops, i + 1)

\* u1 u2 a op u1 b ;
UnaryOperation(u, op) == <<u[1], u[2], "a", op, u[1], "b", ";">>

\* ( a op1 b ) op2 c ;   a op1 ( b op2 c ) ;
GroupedOperation(side, ops) ==
    IF side = "left" THEN <<"(", "a", ops[1], "b", ")", ops[2], "c", ";">>
    ELSE <<"a", ops[1], "(", "b", ops[2], "c", ")", ";">>

ParseInputs ==
    [name : {"tokens"}, a : SeqsUpTo(TokenAlphabet, MaxTokens), b : {<<>>}]
    \cup [name : {"precedence"}, a : OperatorSequences, b : {<<>>}]
    \cup [name : {"unary"}, a : {"-", "!"} \X {"-", "!"}, b : {<<op>> : op \in BinaryOperators}]
    \cup [name : {"grouped"}, a : {<<"left">>, <<"right">>},
          b : BinaryOperators \X BinaryOperators]
    \cup [name : {"example"}, a : {<<"print", "1", "+", "2", "*", "3", ";">>}, b : {<<>>}]
    \cup [name : {"control"},
          a : {<<"if", "(", "1", "==", "1", ")", "print", "1", ";", "else", "print", "2", ";">>,
               <<"if", "(", "1", "==", "2", ")", "print", "1", ";", "else", "print", "2", ";">>,
               <<"var", "a", "=", "1", ";",
                 "while", "(", "a", "<", "3", ")", "a", "=", "a", "+", "1", ";",
                 "print", "a", ";">>,
               <<"while", "(", "1", "==", "2", ")", "{", "print", "1", ";", "}">>},
          b : {<<>>}]
    \cup [name : {"lvalue"}, a : {<<lhs>> : lhs \in LvalueNames},
          b : {<<place>> : place \in LvaluePlaces}]

TokensOf(i) ==
    CASE i.name = "tokens" -> i.a
      [] i.name = "lvalue" -> LvalueStatement(i.a[1], i.b[1])
      [] i.name = "precedence" -> Operation(i.a, 1)
      [] i.name = "unary" -> UnaryOperation(i.a, i.b[1])
      [] i.name = "grouped" -> GroupedOperation(i.a[1], i.b)
      [] i.name = "example" -> i.a
      [] i.name = "control" -> i.a

InitParse ==
    /\ input \in ParseInputs
    /\ scanner = Scanner_new(<<>>)
    /\ scan = [pc |-> "idle", tokens |-> <<>>, errors |-> <<>>, overflow_checks |-> FALSE]
    /\ parser = Parser_new(TokenVector(TokensOf(input)))
    /\ ast = <<>>
    /\ stage = "parse"
    /\ result = None
    /\ envs = Interpreter_new.envs
    /\ environment = Interpreter_new.environment
    /\ stack = <<>>
    /\ entry = <<>>
    /\ ret = NoRet
    /\ out = <<>>

NextParse ==
    \/ parse
    \/ Resolve
    \/ interpret
    \/ execute
    \/ execute_statement_var
    \/ execute_block_statement
    \/ execute_block
    \/ execute_if
    \/ execute_while
    \/ evaluate
    \/ evaluate_assign
    \/ evaluate_unary
    \/ evaluate_binary

SpecParse == InitParse /\ [][NextParse]_vars

(***************************************************************************)
(* Properties.  Helpers first: the environment k parent links up, the      *)
(* chain of a reference, the unwinding of the return signal, and the       *)
(* output the fixed programs and the families are to print.                *)
(***************************************************************************)
RECURSIVE Ancestor(_, _)
Ancestor(e, k) ==
    IF k = 0 THEN Some(e)
    ELSE IF ~envs[e].enclosing.some THEN None
    ELSE Ancestor(envs[e].enclosing.v, k - 1)

RECURSIVE Chain(_)
Chain(e) == {e} \cup (IF envs[e].enclosing.some THEN Chain(envs[e].enclosing.v) ELSE {})

RECURSIVE Root(_)
Root(e) == IF envs[e].enclosing.some THEN Root(envs[e].enclosing.v) ELSE e

\* the environment hops.v links up from the current one exists and binds the name
Bound(variable) ==
    LET target == Ancestor(environment, variable.hops.v) IN
    target.some /\ variable.name \in DOMAIN envs[target.v].values

\* a method has just returned the Returning signal to the frame on top
Unwinding == Running /\ Returned /\ ~ret.ok /\ ret.e.value.k = "Returning"

\* a method has just returned a genuine runtime error to the frame on top
Failing == Running /\ Returned /\ ~ret.ok /\ ret.e.value.k # "Returning"

IsInput(name) == input.name = name
Done == stage = "done"

\* what each wrapper prints on the way in
RECURSIVE WrapMarks(_)
WrapMarks(ws) ==
    IF ws = <<>> THEN <<>>
    ELSE (CASE Head(ws) = "Block" -> <<"in">>
            [] Head(ws) = "While" -> <<"iter">>
            [] OTHER -> <<>>) \o WrapMarks(Tail(ws))

GenuineKinds == {"TypeError", "TypeErrorMultiple", "UndefinedVariable", "WrongArgsNum"}

\* C1: for a program the resolver accepted, whenever the interpreter evaluates a
\* Variable node or performs the assignment of an Assign node whose hops is Some(k), the
\* environment k parent links up from the current one exists and already binds the name.
C1_HopsFindBinding ==
    Running =>
        /\ (Top.fn = "evaluate" /\ Top.expression.k = "Variable" /\ Top.expression.v.hops.some)
               => Bound(Top.expression.v)
        /\ (Top.fn = "evaluate_assign" /\ Top.pc = "value" /\ Returned /\ ret.ok
                /\ Top.variable.hops.some)
               => Bound(Top.variable)

\* C2: for every source, the empty one and those of only whitespace or comments
\* included, Scanner::tokens does not abort, and the token list it returns ends with
\* the Eof token.
C2_TokensTotal ==
    /\ scan.pc # "panic"
    /\ scan.pc = "done" => scan.tokens # <<>> /\ Last(scan.tokens).token = Token_Eof

\* C3: interpret never returns the Returning signal: the driver sees Ok, resolver
\* errors, or one genuine runtime error (TypeError, TypeErrorMultiple,
\* UndefinedVariable, WrongArgsNum).
C3_ReturningNeverLeaks ==
    Done =>
        \/ result.ok
        \/ /\ ~result.panic
           /\ \A i \in 1..Len(result.e) :
                 \/ result.e[i].k = "Resolve"
                 \/ result.e[i].k = "Runtime" /\ result.e[i].e.value.k \in GenuineKinds

\* a Return inside loops and blocks of a function body has handed its value to the
\* caller, and the run ended well
C3_Witness ==
    /\ Done /\ result = Ok(Unit)
    /\ IsInput("return_nil") /\ input.a = <<"While", "Block">>
    /\ out = <<"before", "iter", "in", "nil", "after">>

\* C4: the Return statement raises the signal with the value of its expression, or
\* Nil without one; while the signal unwinds, every step only pops the frame on top
\* (no statement or expression starts, nothing is printed or bound) and hands the
\* signal on unchanged, until the first call frame, which yields the value as the
\* result of its call expression; the return families print exactly what precedes the
\* Return, the returned value, and what follows the call.
C4_ReturnUnwinds ==
    [][/\ (Running /\ Top.fn = "execute_return" /\ (Top.pc = "value" => ret.ok)
              /\ (Top.pc = "start" => ~Top.expression.some))
             => ret' = Err(RuntimeError(<<0, 0>>,
                           Returning(IF Top.pc = "value" THEN ret.v ELSE Value_Nil)))
       /\ Unwinding =>
             /\ stack' = Front(stack)
             /\ out' = out
             /\ envs' = envs
             /\ ret' = IF Top.fn = "call" THEN Ok(ret.e.value.v) ELSE ret
       /\ (stage' = "done" /\ input.name \in {"return_value", "return_nil"}) =>
             /\ result' = Ok(Unit)
             /\ out' = <<"before">> \o WrapMarks(input.a)
                       \o <<IF IsInput("return_value") THEN "42" ELSE "nil", "after">>
       /\ (stage' = "done" /\ IsInput("nested_calls")) => out' = <<"outer goes on", "2">>
       /\ (stage' = "done" /\ IsInput("first")) => out' = <<"42">>]_vars

\* the signal is passing a while loop nested in another wrapper of the function body
C4_Witness ==
    /\ Unwinding /\ Top.fn = "execute_while"
    /\ IsInput("return_value") /\ Len(input.a) = 2
    /\ \E i \in 1..Len(stack) : stack[i].fn = "call"

\* C5: when execute_block_statement or a scripted call returns, whatever its result
\* (Ok, the Returning signal, a runtime error), the current environment is the one
\* that was current when it started; so it is the global one whenever interpret goes
\* on to the next top-level statement or returns.
C5_EnvironmentRestored ==
    [][/\ (Running /\ ((Top.fn = "execute_block_statement" /\ Top.pc = "res")
                       \/ (Top.fn = "call" /\ Top.pc = "ans")))
             => environment' = entry[Len(stack)]
       /\ (Running /\ Top.fn = "interpret") => environment = 1]_vars

\* a block is about to return a runtime error while its own environment is current
C5_Witness ==
    /\ Failing /\ Top.fn = "execute_block_statement" /\ Top.pc = "res"
    /\ environment # entry[Len(stack)]
    /\ \E i \in 1..Len(stack) : stack[i].fn = "call"

\* C6: a free variable of a function body denotes the binding visible where the
\* function was declared: show() prints the outer a before and after the block that
\* declares show declares its own a, through any nesting of blocks and ifs between
\* the outer a, the declaration of show and the read.
C6_ClosureReadsDeclarationBinding ==
    /\ (Done /\ IsInput("shadow")) => out = <<"global", "global">>
    /\ (Done /\ IsInput("shadow_global")) => out = <<"global", "global", "local">>
    /\ (Done /\ IsInput("shadow_block")) => out = <<"outer", "outer", "local">>
    /\ (Done /\ input.name \in {"shadow", "shadow_global", "shadow_block"})
           => result = Ok(Unit)

\* show() has printed the a of the enclosing block twice, around the declaration of
\* the local a, with show declared and reading inside nested blocks
C6_Witness ==
    /\ Done /\ IsInput("shadow_block")
    /\ input.a = <<"Scope", "Then">> /\ input.b = <<"Then", "Scope">>
    /\ out = <<"outer", "outer", "local">>

\* C7: an assignment to a variable resolved k environments up writes the one binding
\* of that environment and nothing else, and creates no environment; the enclosing
\* code, later calls and other closures of that environment read the new value: the
\* counter prints 1, 2, 3, and in the families f, g and the code around them agree.
C7_SharedBindingAssigned ==
    [][/\ (Running /\ Top.fn = "evaluate_assign" /\ Top.pc = "value" /\ Returned /\ ret.ok
              /\ Top.variable.hops.some /\ Ancestor(environment, Top.variable.hops.v).some)
             => /\ envs' = [envs EXCEPT
                              ![Ancestor(environment, Top.variable.hops.v).v].values =
                                  Insert(@, Top.variable.name, ret.v)]
                /\ ret' = Ok(ret.v)
       /\ (stage' = "done" /\ IsInput("counter")) => out' = <<"1", "2", "3">>
       /\ (stage' = "done" /\ input.name \in {"counter_global", "counter_block"})
             => out' = <<"1", "2", "2", "3", "4", "4">>
       /\ (stage' = "done" /\ IsInput("for")) => out' = <<"0", "1", "2">>]_vars

\* the third call of f is assigning a, two environments or more up from its body
C7_Witness ==
    /\ Running /\ Top.fn = "evaluate_assign" /\ Top.pc = "value" /\ Returned
    /\ IsInput("counter_block")
    /\ ret.ok /\ ret.v.t = "Number" /\ ret.v.v = 4
    /\ Top.variable.hops.some /\ Top.variable.hops.v >= 2
    /\ out = <<"1", "2", "2", "3">>

\* environments e1 and e2 are equal (values of different types are unequal)
SameEnvironment(e1, e2) ==
    /\ e1.enclosing = e2.enclosing
    /\ DOMAIN e1.values = DOMAIN e2.values
    /\ \A name \in DOMAIN e1.values :
          /\ e1.values[name].t = e2.values[name].t
          /\ e1.values[name] = e2.values[name]

\* C8: a scripted call appends one new environment, whose parent is the closure of the
\* callee and whose bindings are exactly the parameters with their arguments, and
\* leaves every other environment as it is; no step ever changes an environment that
\* is not on the chain of the current one (so never the parameters and locals of
\* another activation), and no parent link changes; recursive and repeated
\* activations keep their own parameters and locals.
C8_FreshEnvironmentPerCall ==
    [][/\ (Running /\ Top.fn = "call" /\ Top.pc = "start" /\ Top.callee.kind = "LoxFunction")
             => /\ Len(envs') = Len(envs) + 1
                /\ SubSeq(envs', 1, Len(envs)) = envs
                /\ Last(envs').enclosing = Some(Top.callee.closure)
                /\ DOMAIN Last(envs').values = {Top.callee.params[i] : i \in 1..Len(Top.args)}
                /\ \A i \in 1..Len(Top.args) :
                      Last(envs').values[Top.callee.params[i]] = Top.args[i]
                /\ environment' = Len(envs')
       /\ Len(envs') >= Len(envs)
       /\ \A i \in 1..Len(envs) :
             /\ envs'[i].enclosing = envs[i].enclosing
             /\ ~SameEnvironment(envs'[i], envs[i]) => i \in Chain(environment)
       /\ (stage' = "done" /\ IsInput("recursion"))
             => out' = <<"0", "0", "1", "10", "2", "20">>
       /\ (stage' = "done" /\ IsInput("activations")) => out' = <<"11", "21", "12">>]_vars

\* the innermost of three live activations of f is returning to the second
C8_Witness ==
    /\ Running /\ Top.fn = "call" /\ Top.pc = "ans" /\ IsInput("recursion")
    /\ Cardinality({i \in 1..Len(stack) : stack[i].fn = "call"}) = 3
    /\ out = <<"0", "0">>

\* C9: an assignment to a name resolved as global (hops = None) that the outermost
\* environment does not bind returns UndefinedVariable(name) and changes no environment.
C9_AssignUndefinedGlobal ==
    [][(Running /\ Top.fn = "evaluate_assign" /\ Top.pc = "value" /\ Returned /\ ret.ok
           /\ ~Top.variable.hops.some
           /\ Top.variable.name \notin DOMAIN envs[Root(environment)].values)
          => /\ ret' = Err(RuntimeError(Top.location, UndefinedVariable(Top.variable.name)))
             /\ envs' = envs]_vars

\* C10: when the left operand of `and` is false, or of `or` is true, evaluate_binary
\* returns that boolean without evaluating the right operand: no frame is pushed,
\* nothing is printed, no environment changes.
C10_ShortCircuit ==
    [][(Running /\ Top.fn = "evaluate_binary" /\ Top.pc = "left" /\ Returned /\ ret.ok
           /\ ret.v.t = "Boolean"
           /\ \/ Top.operator = "And" /\ ~ret.v.v
              \/ Top.operator = "Or" /\ ret.v.v)
          => /\ stack' = Front(stack)
             /\ ret' = Ok(ret.v)
             /\ envs' = envs
             /\ out' = out]_vars

\* C11: binary + on two values yields the numeric sum when both are Numbers and the
\* concatenation when both are Strings; for every other pair of operand types it
\* returns TypeErrorMultiple([Number, String], type of the left operand) at the
\* location of the expression, and no value.
C11_AddTypes ==
    [][(Running /\ Top.fn = "evaluate_binary" /\ Top.pc = "right" /\ Top.operator = "Add"
           /\ Returned /\ ret.ok)
          => CASE Top.left.t = "Number" /\ ret.v.t = "Number" ->
                     /\ ret'.ok /\ ret'.v.t = "Number"
                     /\ ret'.v.v = Top.left.v + ret.v.v
               [] Top.left.t = "String" /\ ret.v.t = "String" ->
                     /\ ret'.ok /\ ret'.v.t = "String"
                     /\ ret'.v.v = Top.left.v \o ret.v.v
               [] OTHER ->
                     /\ ~ret'.ok
                     /\ ret'.e.location = Top.location
                     /\ ret'.e.value.k = "TypeErrorMultiple"
                     /\ ret'.e.value.expected = <<"Number", "String">>
                     /\ ret'.e.value.actual = Top.left.t]_vars

\* an expression and a statement with every location set to <<0, 0>>
RECURSIVE Unlocated(_)
Unlocated(e) ==
    CASE e.k = "Binary" -> Binary(<<0, 0>>, Unlocated(e.l), e.o, Unlocated(e.r))
      [] e.k = "Grouping" -> Grouping(<<0, 0>>, Unlocated(e.e))
      [] e.k = "Literal" -> Literal(<<0, 0>>, e.l)
      [] e.k = "Unary" -> Unary(<<0, 0>>, e.o, Unlocated(e.r))
      [] e.k = "Variable" -> Variable(<<0, 0>>, e.v)
      [] e.k = "Assign" -> Assign(<<0, 0>>, e.v, Unlocated(e.e))

RECURSIVE UnlocatedStatement(_)
UnlocatedStatement(s) ==
    CASE s.k = "Expression" -> Stmt_Expression(Unlocated(s.e))
      [] s.k = "Print" -> Stmt_Print(Unlocated(s.e))
      [] s.k = "Var" -> Stmt_Var(s.name, IF s.e.some THEN Some(Unlocated(s.e.v)) ELSE None)
      [] s.k = "While" -> Stmt_While(Unlocated(s.c), UnlocatedStatement(s.b))
      [] s.k = "Block" -> Stmt_Block([i \in 1..Len(s.s) |-> UnlocatedStatement(s.s[i])])
      [] s.k = "If" ->
            Stmt_If(Unlocated(s.c), UnlocatedStatement(s.t),
                    IF s.e.some THEN Some(UnlocatedStatement(s.e.v)) ELSE None)

\* the parts of the sources of the for family as statements and expressions, unlocated
ForIncrementExpected ==
    Assign(<<0, 0>>, "i", Binary(<<0, 0>>, Variable(<<0, 0>>, "i"), "Add",
                                 Literal(<<0, 0>>, Lit_Number(1))))

ForStop(n) ==
    Stmt_If(Binary(<<0, 0>>, Variable(<<0, 0>>, "i"), "Greater", Literal(<<0, 0>>, Lit_Number(n))),
            Stmt_Expression(Variable(<<0, 0>>, "stop")), None)

ForBodyExpected(cond, step) ==
    LET say == Stmt_Print(Variable(<<0, 0>>, "i"))
        go == Stmt_Expression(ForIncrementExpected)
    IN  CASE cond = "some" /\ step = "some" -> say
          [] cond = "some" /\ step = "none" -> Stmt_Block(<<go, say>>)
          [] cond = "none" /\ step = "some" -> Stmt_Block(<<say, ForStop(1)>>)
          [] cond = "none" /\ step = "none" -> Stmt_Block(<<go, say, ForStop(2)>>)

\* Block([init, While(cond, Block([body, Expression(step)]))]) without the outer Block
\* when init is omitted, without the inner Block when step is omitted, and with
\* Literal(true) for an omitted cond
ForExpected(init, cond, step) ==
    LET body == ForBodyExpected(cond, step)
        stepped == IF step = "some"
                   THEN Stmt_Block(<<body, Stmt_Expression(ForIncrementExpected)>>)
                   ELSE body
        condition == IF cond = "some"
                     THEN Binary(<<0, 0>>, Variable(<<0, 0>>, "i"), "Less",
                                 Literal(<<0, 0>>, Lit_Number(3)))
                     ELSE Literal(<<0, 0>>, Lit_Boolean(TRUE))
        loop == Stmt_While(condition, stepped)
        zero == Literal(<<0, 0>>, Lit_Number(0))
    IN  CASE init = "var" -> Stmt_Block(<<Stmt_Var("i", Some(zero)), loop>>)
          [] init = "expression" ->
                Stmt_Block(<<Stmt_Expression(Assign(<<0, 0>>, "i", zero)), loop>>)
          [] init = "none" -> loop

\* C12: every for statement, with each of init, cond and step present or omitted,
\* parses without error into Block([init, While(cond, Block([body, Expression(step)]))]),
\* the outer Block dropped without init, the inner Block dropped without step, and
\* Literal(true) as the condition when it is omitted; the source
\* for (var i = 0; i < 3; i = i + 1) print i;  parses and prints 0, 1, 2.
C12_ForDesugared ==
    (IsInput("for") /\ stage \in {"parse", "resolve", "interpret", "done"}) =>
        /\ parser.errors = <<>>
        /\ stage # "parse" =>
               /\ ast # <<>>
               /\ UnlocatedStatement(Last(ast)) = ForExpected(input.a[1], input.a[2], input.b[1])
        /\ (Done /\ input.a = <<"var", "some">> /\ input.b = <<"some">>) =>
               /\ result = Ok(Unit)
               /\ out = <<"0", "1", "2">>

\* the run has just passed the resolver: interpret is about to take the first statement
Resolved == Running /\ Len(stack) = 1 /\ Top.fn = "interpret" /\ Len(Top.program) = Len(ast)

\* the variables that the expression e reads
RECURSIVE Reads(_)
Reads(e) ==
    CASE e.k = "Binary" -> Reads(e.l) \cup Reads(e.r)
      [] e.k = "Call" -> Reads(e.f) \cup UNION {Reads(e.p[i]) : i \in 1..Len(e.p)}
      [] e.k = "Grouping" -> Reads(e.e)
      [] e.k = "Literal" -> {}
      [] e.k = "Unary" -> Reads(e.r)
      [] e.k = "Variable" -> {e.v}
      [] e.k = "Assign" -> Reads(e.e)

\* C13: inside a pushed scope (a block or a function body, however nested and whether
\* or not an outer scope defines the name), a read of a variable within the initializer
\* of its own declaration is rejected with VariableOwnInitializer at the location of the
\* read, and nothing runs; at top level the same declaration is accepted and the read
\* is resolved as global (hops = None).
C13_OwnInitializerRead ==
    IsInput("own_initializer") =>
        IF input.a # <<>>
        THEN /\ stage # "interpret"
             /\ Done => result = Err(<<LoxError_Resolve(
                                         ResolveError(<<1, 50>>, "VariableOwnInitializer"))>>)
        ELSE /\ Done => (result.ok \/ \A i \in 1..Len(result.e) : result.e[i].k # "Resolve")
             /\ Resolved =>
                    /\ Top.program[3].k = "Var"
                    /\ ResolvedVariable("a", None) \in Reads(Top.program[3].e.v)

\* the read is an argument of a call, in a block inside a function: rejected
C13_Witness ==
    /\ IsInput("own_initializer") /\ input.a = <<"Fun", "Scope">> /\ input.b = <<"call_arg">>
    /\ Done /\ ~result.ok /\ result.e[1].e.value = "VariableOwnInitializer"

\* C14: inside a pushed scope, an assignment to a name that the innermost scope holds
\* as Declared and not yet Defined, as in { var a = (a = 2); }, is rejected with
\* VariableOwnInitializer at the location of the assignment, and nothing runs.
C14_OwnInitializerAssign ==
    (IsInput("own_assignment") /\ input.a # <<>>) =>
        /\ stage # "interpret"
        /\ Done => result = Err(<<LoxError_Resolve(
                                    ResolveError(<<1, 50>>, "VariableOwnInitializer"))>>)

\* C15: a declaration (var, function, or parameter) of a name that the innermost
\* pushed scope already holds is rejected with VariableRedeclaration and nothing runs;
\* a declaration of a name that only an outer scope holds, and any declaration at top
\* level, where no scope is pushed, is accepted.
C15_Redeclaration ==
    IsInput("redeclaration") =>
        IF \/ input.b[2] = "params"
           \/ input.b[3] = "same" /\ input.b[2] \in {"var", "fun"}
        THEN /\ stage # "interpret"
             /\ Done => result = Err(<<LoxError_Resolve(
                                         ResolveError(<<0, 0>>, "VariableRedeclaration"))>>)
        ELSE Done => result = Ok(Unit)

\* a function declared after a variable of its name in the block of a function body
C15_Witness ==
    /\ IsInput("redeclaration") /\ input.a = <<"Fun">> /\ input.b = <<"var", "fun", "same">>
    /\ Done /\ ~result.ok /\ result.e[1].e.value = "VariableRedeclaration"

\* the resolver's errors of kind value that the run ended with
Reported(value) ==
    IF stage # "done" \/ result.ok \/ result.panic THEN {}
    ELSE {i \in 1..Len(result.e) : result.e[i].k = "Resolve" /\ result.e[i].e.value = value}

\* C16: a return statement draws TopLevelReturn exactly when no function body encloses
\* it: under blocks, ifs and whiles of a function body it is accepted, and outside of
\* every function it is rejected, also after a function declaration whose body had
\* errors of its own.
C16_TopLevelReturn ==
    IsInput("return_place") /\ stage \in {"interpret", "done"} =>
        IF \E i \in 1..Len(input.a) : input.a[i] = "Fun"
        THEN Reported("TopLevelReturn") = {}
        ELSE stage = "done" /\ Reported("TopLevelReturn") # {}

\* C17: == on two callables is true exactly when both operands are the same function
\* object, != is its negation, and a callable is unequal to every value of another
\* type: two functions named f that were declared in different scopes are unequal.
C17_CallableIdentity ==
    (/\ IsInput("callable_equality") /\ Done
     /\ input.a[1] \in CallableNames \/ input.b[1] \in CallableNames)
        => /\ result = Ok(Unit)
           /\ out = IF input.a = input.b THEN <<"true", "false">> ELSE <<"false", "true">>

\* what the arguments t(1), ..., t(n) print, in their order
TracePrints(n) == [i \in 1..n |-> ToString(i)]

\* the arity of the callable named callee
ArityOf(callee) ==
    CASE callee = "f" -> 2
      [] callee = "clock" -> 0
      [] callee = "debug" -> 1

\* the type of the value named callee
TypeOf(callee) ==
    CASE callee = "nil" -> "Nil"
      [] callee = "text" -> "String"
      [] callee = "1" -> "Number"
      [] OTHER -> "Callable"

\* C18: a call evaluates the callee first and, when it is not a callable, raises
\* TypeError(Callable, actual) before any argument is evaluated; else the arguments are
\* evaluated left to right, and only then a count that differs from the arity raises
\* WrongArgsNum(given, arity), with no statement of the body executed.
C18_CallOrder ==
    IsInput("call_order") /\ Done =>
        LET callee == input.a[1]
            n == input.b[1]
        IN  IF TypeOf(callee) # "Callable"
            THEN /\ out = <<"callee">>
                 /\ result = Err(<<LoxError_Runtime(RuntimeError(
                                       <<1, 40>>, TypeError("Callable", TypeOf(callee))))>>)
            ELSE IF n # ArityOf(callee)
            THEN /\ out = <<"callee">> \o TracePrints(n)
                 /\ result = Err(<<LoxError_Runtime(RuntimeError(
                                       <<1, 40>>, WrongArgsNum(n, ArityOf(callee))))>>)
            ELSE /\ out = <<"callee">> \o TracePrints(n)
                             \o (IF callee = "f" THEN <<"body">> ELSE <<>>) \o <<"after">>
                 /\ result = Ok(Unit)

\* f called with one argument more than its arity: every argument was evaluated
C18_Witness ==
    /\ IsInput("call_order") /\ input.a = <<"f">> /\ input.b = <<3>>
    /\ Done /\ out = <<"callee", "1", "2", "3">>

\* the stages (Tokenize, Parse, Resolve, Runtime) whose errors the run ended with
FailedStages ==
    IF stage # "done" \/ result.ok \/ result.panic THEN {}
    ELSE {result.e[i].k : i \in 1..Len(result.e)}

\* no statement was executed: nothing printed, the environments as Interpreter::new
\* made them
NothingExecuted ==
    out = <<>> /\ envs = Interpreter_new.envs /\ environment = Interpreter_new.environment

\* C19: the stages run in order, each only when the one before reported no error: the
\* parser is not run after an error of the lexer, the resolver is not run after an
\* error of the parser, and after an error of the lexer, the parser or the resolver no
\* statement is executed.
C19_StagesInOrder ==
    /\ stage = "scan" => parser = Parser_new(<<>>) /\ ast = <<>> /\ NothingExecuted
    /\ stage = "parse" => scan.pc = "done" /\ scan.errors = <<>> /\ NothingExecuted
    /\ stage \in {"resolve", "interpret"} =>
           /\ scan.pc = "done" /\ scan.errors = <<>>
           /\ Parser_is_at_end(parser) /\ parser.errors = <<>>
    /\ stage = "resolve" => NothingExecuted
    /\ scan.errors # <<>> =>
           /\ stage \in {"scan", "done"}
           /\ parser = Parser_new(<<>>) /\ ast = <<>> /\ NothingExecuted
           /\ Done => FailedStages = {"Tokenize"}
    /\ parser.errors # <<>> =>
           /\ stage \in {"parse", "done"} /\ NothingExecuted
           /\ Done => FailedStages = {"Parse"}
    /\ FailedStages \cap {"Tokenize", "Parse", "Resolve"} # {} =>
           /\ NothingExecuted
           /\ Cardinality(FailedStages) = 1

\* a statement that runs, then one the resolver reports: nothing was printed
C19_Witness ==
    /\ IsInput("pieces") /\ input.a = <<"ok", "resolver_error">>
    /\ Done /\ FailedStages = {"Resolve"} /\ out = <<>>

\* C20: once a runtime error (not the signal of a return) has been raised, every
\* further step hands the same error to the caller, unchanged, until interpret returns
\* it: no statement or subexpression is started, nothing is printed and no variable
\* changes, so the prints and updates made before the error stay as they were.
C20_FailFast ==
    [][(Running /\ Returned /\ ~ret.ok /\ ~ret.panic /\ ret.e.value.k \in GenuineKinds)
          => /\ Len(stack') < Len(stack)
             /\ out' = out
             /\ envs' = envs
             /\ IF stack' = <<>>
                THEN stage' = "done" /\ result' = Err(<<LoxError_Runtime(ret.e)>>)
                ELSE stage' = stage /\ ret' = ret]_vars

\* an error under two blocks: the run ended with it, the prints and the update of a
\* made before it are in effect
C20_Witness ==
    /\ IsInput("fail_fast") /\ input.a = <<"Block", "While">> /\ input.b = <<"TypeError">>
    /\ Done /\ ~result.ok /\ result.e[1].e.value.k = "TypeError"
    /\ out = <<"before", "in", "iter">>
    /\ envs[1].values["a"] = Value_Number(2)

\* C21: the exit code of a run of a file is 0 only when no stage reported an error: a
\* run in which the lexer, the parser, the resolver or the interpreter reported an error
\* ends with a non-zero exit code.
C21_ExitCode ==
    Done /\ FailedStages # {} => main(run_file(result)) # 0

\* with the cursor at q (q tokens consumed), parsing may resume: the next token is EOF,
\* or the token just consumed is a semicolon, or the next token is one of the keywords
\* class, fun, var, for, if, while, print, return
ResumePoint(toks, q) ==
    \/ toks[q + 1].token.k = "Eof"
    \/ q > 0 /\ toks[q].token.k = "Symbol" /\ toks[q].token.v = "Semicolon"
    \/ /\ toks[q + 1].token.k = "Keyword"
       /\ toks[q + 1].token.v \in {"Class", "Fun", "Var", "For", "If", "While", "Print",
                                    "Return"}

\* errors is a prefix of longer
IsPrefix(errors, longer) ==
    Len(errors) <= Len(longer) /\ SubSeq(longer, 1, Len(errors)) = errors

\* the tokens consumed from cursor from to cursor to hold neither a left brace (a block
\* with statements of its own) nor an = (an assignment)
PlainTokens(toks, from, to) ==
    \A q \in from + 1..to :
        ~(toks[q].token.k = "Symbol" /\ toks[q].token.v \in {"LeftBrace", "Equal"})

LvalueTree(lhs, c) ==
    CASE lhs = "literal" -> Literal(<<1, c>>, Lit_Number(1))
      [] lhs = "grouping" -> Grouping(<<1, c>>, Variable(<<1, c + 1>>, "a"))
      [] lhs = "minus" -> Unary(<<1, c>>, "Minus", Variable(<<1, c + 1>>, "a"))
      [] lhs = "not" -> Unary(<<1, c>>, "Not", Variable(<<1, c + 1>>, "a"))
      [] lhs = "sum" ->
            Binary(<<1, c + 1>>, Variable(<<1, c>>, "a"), "Add", Variable(<<1, c + 2>>, "b"))
      [] lhs = "equality" ->
            Binary(<<1, c + 1>>, Variable(<<1, c>>, "a"), "Equals", Variable(<<1, c + 2>>, "b"))
      [] lhs = "or" ->
            Binary(<<1, c + 1>>, Variable(<<1, c>>, "a"), "Or", Variable(<<1, c + 2>>, "b"))

\* the statement that holds the tree of the left side, by the place of the assignment
LvalueExpected(place, tree) ==
    CASE place = "expression" -> Stmt_Expression(tree)
      [] place = "print" -> Stmt_Print(tree)
      [] place = "var" -> Stmt_Var("c", Some(tree))
      [] place = "block" -> Stmt_Block(<<Stmt_Expression(tree)>>)

\* C23: an assignment whose left side is a literal, a grouping, a unary or a binary
\* expression records exactly one InvalidLvalue at the = token; the statement around it
\* is parsed to its end with the left side as the value, the next statement follows it
\* (no tokens were skipped), and parse returns the error.
C23_InvalidLvalue ==
    (input.name = "lvalue" /\ Done) =>
        LET lhs == input.a[1]
            place == input.b[1]
            first == Len(LvaluePrefix(place)) + 1
            equals == first + Len(LvalueTokens(lhs))
            last == Len(LvalueStatement(lhs, place))
        IN  /\ parser.errors = <<ParseError(<<1, equals>>, InvalidLvalue)>>
            /\ result = Err(<<LoxError_Parse(ParseError(<<1, equals>>, InvalidLvalue))>>)
            /\ ast = <<LvalueExpected(place, LvalueTree(lhs, first)),
                       Stmt_Print(Literal(<<1, last - 1>>, Lit_Number(3)))>>
            /\ NothingExecuted

\* ( a ) = 2 ; in a block: the run ended with the one error
C23_Witness ==
    /\ input = [name |-> "lvalue", a |-> <<"grouping">>, b |-> <<"block">>]
    /\ Done /\ Len(ast) = 2 /\ Len(parser.errors) = 1
    /\ parser.errors[1].value = InvalidLvalue

\* the precedence level of an operator: assignment 0, or 1, and 2, equality 3,
\* comparison 4, term 5, factor 6
LevelOf(op) ==
    CASE op = "=" -> 0
      [] op = "or" -> 1
      [] op = "and" -> 2
      [] op \in {"==", "!="} -> 3
      [] op \in {"<", "<=", ">", ">="} -> 4
      [] op \in {"+", "-"} -> 5
      [] op \in {"*", "/"} -> 6

\* the operator of the tree for an operator token
OperatorOf(op) ==
    CASE op = "or" -> "Or"
      [] op = "and" -> "And"
      [] op = "==" -> "Equals"
      [] op = "!=" -> "NotEquals"
      [] op = "<" -> "Less"
      [] op = "<=" -> "LessEquals"
      [] op = ">" -> "Greater"
      [] op = ">=" -> "GreaterEquals"
      [] op = "+" -> "Add"
      [] op = "-" -> "Subtract"
      [] op = "*" -> "Multiply"
      [] op = "/" -> "Divide"

\* the operator of the tree for a unary operator token
UnaryOperatorOf(op) == IF op = "-" THEN "Minus" ELSE "Not"

\* the operator at which the operands i..j of  a ops[1] b ops[2] c ...  split: of the
\* operators of the lowest level between them the last (they associate to the left),
\* for assignment the first (it associates to the right)
SplitOf(ops, i, j) ==
    LET lowest == CHOOSE l \in 0..6 :
                      /\ \E k \in i..j - 1 : LevelOf(ops[k]) = l
                      /\ \A k \in i..j - 1 : LevelOf(ops[k]) >= l
        at == {k \in i..j - 1 : LevelOf(ops[k]) = lowest}
    IN  IF lowest = 0 THEN CHOOSE k \in at : \A h \in at : k <= h
        ELSE CHOOSE k \in at : \A h \in at : k >= h

\* the tree that the precedence levels dictate for the operands i..j; operand i is at
\* column 2 i - 1 and operator k at column 2 k
RECURSIVE TreeOf(_, _, _)
TreeOf(ops, i, j) ==
    IF i = j THEN Variable(<<1, 2 * i - 1>>, OperandNamed[i])
    ELSE LET k == SplitOf(ops, i, j) IN
         IF ops[k] = "=" THEN Assign(<<1, 2 * k>>, OperandNamed[i], TreeOf(ops, k + 1, j))
         ELSE Binary(<<1, 2 * k>>, TreeOf(ops, i, k), OperatorOf(ops[k]), TreeOf(ops, k + 1, j))

\* the tree of u1 u2 a op u1 b: a unary operator binds tighter than every binary one
\* and applies to the unary expression on its right
UnaryTreeOf(u, op) ==
    Binary(<<1, 4>>,
           Unary(<<1, 1>>, UnaryOperatorOf(u[1]),
                 Unary(<<1, 2>>, UnaryOperatorOf(u[2]),
                       Variable(<<1, 3>>, "a"))),
           OperatorOf(op),
           Unary(<<1, 5>>, UnaryOperatorOf(u[1]),
                 Variable(<<1, 6>>, "b")))

\* the tree of ( a op1 b ) op2 c and of a op1 ( b op2 c ): the grouping is one operand
GroupedTreeOf(side, ops) ==
    IF side = "left"
    THEN Binary(<<1, 6>>,
                Grouping(<<1, 1>>, Binary(<<1, 3>>, Variable(<<1, 2>>, "a"), OperatorOf(ops[1]),
                                          Variable(<<1, 4>>, "b"))),
                OperatorOf(ops[2]), Variable(<<1, 7>>, "c"))
    ELSE Binary(<<1, 2>>, Variable(<<1, 1>>, "a"), OperatorOf(ops[1]),
                Grouping(<<1, 3>>, Binary(<<1, 5>>, Variable(<<1, 4>>, "b"), OperatorOf(ops[2]),
                                          Variable(<<1, 6>>, "c"))))

\* C24: the parser builds the tree that the precedence levels dictate: an operator of a
\* higher level binds tighter, binary operators of one level associate to the left,
\* unary operators and assignment to the right; print 1 + 2 * 3; prints 7.
C24_Precedence ==
    /\ (input.name \in {"precedence", "unary", "grouped"} /\ stage # "parse")
          => /\ parser.errors = <<>>
             /\ ast = <<Stmt_Expression(
                           CASE input.name = "precedence" -> TreeOf(input.a, 1, Len(input.a) + 1)
                             [] input.name = "unary" -> UnaryTreeOf(input.a, input.b[1])
                             [] input.name = "grouped" -> GroupedTreeOf(input.a[1], input.b))>>
    /\ (input.name = "example" /\ Done) => result = Ok(Unit) /\ out = <<"7">>

\* a = b = c - d was parsed, the subtraction under the second assignment
C24_Witness ==
    /\ input.name = "precedence" /\ input.a = <<"=", "=", "-">> /\ stage = "resolve"
    /\ ast[1].e.k = "Assign" /\ ast[1].e.e.k = "Assign" /\ ast[1].e.e.e.k = "Binary"

\* following the parent links of heap h from e visits no environment of seen or of the
\* walk twice and ends at environment 1, the one that Interpreter::new created
RECURSIVE EndsAtGlobal(_, _, _)
EndsAtGlobal(h, e, seen) ==
    /\ e \in 1..Len(h)
    /\ e \notin seen
    /\ IF h[e].enclosing.some THEN EndsAtGlobal(h, h[e].enclosing.v, seen \cup {e}) ELSE e = 1

\* the captured environments of the closures that value v holds
ClosuresOf(v) ==
    IF v.t = "Callable" /\ v.v.kind = "LoxFunction" THEN {v.v.closure} ELSE {}

\* the current environment, every captured one and every environment that was ever
\* created (a value in flight can only capture one of those) start a chain that ends at
\* the global
AllEndAtGlobal ==
    /\ EndsAtGlobal(envs, environment, {})
    /\ \A i \in 1..Len(envs) : \A name \in DOMAIN envs[i].values :
          \A c \in ClosuresOf(envs[i].values[name]) : EndsAtGlobal(envs, c, {})
    /\ \A i \in 1..Len(envs) : EndsAtGlobal(envs, i, {})
    /\ \A k \in 1..Len(stack) :
          "callee" \in DOMAIN stack[k] /\ "kind" \in DOMAIN stack[k].callee
              /\ stack[k].callee.kind = "LoxFunction"
            => EndsAtGlobal(envs, stack[k].callee.closure, {})

\* C25: in every state the parent links from the current environment and from the
\* captured environment of every closure visit no environment twice and end at the
\* global environment, and no step changes the parent link of an environment.
C25_ChainsEndAtGlobal ==
    [][/\ AllEndAtGlobal /\ AllEndAtGlobal'
       /\ Len(envs') >= Len(envs)
       /\ \A i \in 1..Len(envs) : envs'[i].enclosing = envs[i].enclosing]_vars

\* a closure that captured a block's environment is bound while a call of it runs in
\* an environment three links from the global
C25_Witness ==
    /\ Running /\ Cardinality(Chain(environment)) >= 4
    /\ \E i \in 1..Len(envs) : \E name \in DOMAIN envs[i].values :
          \E c \in ClosuresOf(envs[i].values[name]) : c # 1 /\ c \in Chain(environment)

\* the line and column reached after every scalar of source has been consumed: one line
\* per newline, and one column per scalar after the last newline
FinalPosition(source) ==
    LET newlines == {i \in 1..Len(source) : source[i] = "\n"}
        last_newline == IF newlines = {} THEN 0 ELSE CHOOSE i \in newlines : \A j \in newlines : j <= i
    IN  <<Cardinality(newlines) + 1, Len(source) - last_newline + 1>>

\* C26: the Eof token that ends the token list is located at the final position of the
\* input, the line and column reached after the last scalar of the source.
C26_EofAtFinalPosition ==
    (scan.pc = "done" /\ scan.tokens # <<>>)
        => Last(scan.tokens).location = FinalPosition(scanner.source)

\* the columns of line 1 at which resolve reported a scope error
ReportedAt ==
    IF stage # "done" \/ result.ok \/ result.panic THEN {}
    ELSE {result.e[i].e.location[2] : i \in {j \in 1..Len(result.e) : result.e[j].k = "Resolve"}}

\* C27: after the resolver records an error it goes on with the remaining parts of the
\* program: two independent scope errors in different statements of a block, in the
\* two branches of an if, or in the condition and the body of a while, are both in the
\* error list of the one resolve call.
C27_ErrorsAccumulate ==
    IsInput("two_errors") /\ stage \in {"interpret", "done"}
        => stage = "done" /\ {20, 30} \subseteq ReportedAt

\* resolver states a statement can be met in: up to two scopes, each empty or holding
\* a declared or a defined a, inside or outside of a function
ScopeSamples == {EmptyMap, Insert(EmptyMap, "a", "Declared"), Insert(EmptyMap, "a", "Defined")}

ResolverContexts ==
    [scopes : SeqsUpTo(ScopeSamples, 2), current_function : {None, Some("Function")}]

\* resolve_statement gives back as many scopes and the function context it was given
Restores(self, stmt) ==
    LET after == resolve_statement(self, stmt).self IN
    /\ Len(after.scopes) = Len(self.scopes)
    /\ after.current_function.some = self.current_function.some

\* Restores for the statement and for every statement inside of it
RECURSIVE RestoresAll(_)
RestoresAll(stmt) ==
    /\ \A self \in ResolverContexts : Restores(self, stmt)
    /\ CASE stmt.k = "Function" ->
                \A i \in DOMAIN stmt.body : RestoresAll(stmt.body[i])
          [] stmt.k = "Block" -> \A i \in DOMAIN stmt.s : RestoresAll(stmt.s[i])
          [] stmt.k = "While" -> RestoresAll(stmt.b)
          [] stmt.k = "If" ->
                RestoresAll(stmt.t) /\ (stmt.e.some => RestoresAll(stmt.e.v))
          [] OTHER -> TRUE

\* C28: resolving any statement leaves the depth of the scope stack and the function
\* context as they were, with or without errors; after resolve the stack is empty and
\* the context is None, and resolving the same program again with the resolver that
\* resolve left behind gives the same result.
C28_ResolverRestored ==
    stage \in {"resolve", "done"} =>
        /\ \A i \in DOMAIN ast : RestoresAll(ast[i])
        /\ LET first == resolve(Resolver_new, ast)
               again == resolve(first.self, ast)
           IN  /\ first.self.scopes = <<>> /\ ~first.self.current_function.some
               /\ again.self.scopes = <<>> /\ ~again.self.current_function.some
               /\ again.res.ok = first.res.ok
               /\ again.res = first.res
               /\ (stage = "done" /\ ~result.ok /\ ~result.panic /\ ~first.res.ok)
                      => result.e = map_Resolve(again.res.e)

\* resolve has reported the error of a function body that sits in a block, and the
\* scopes of the block and of the function were left again
C28_Witness ==
    /\ Done /\ IsInput("two_errors") /\ input.a = <<"Scope", "Fun">>
    /\ ReportedAt = {20, 30}
    /\ resolve(Resolver_new, ast).self = Resolver_new

\* the cursor of self is on a token, the Eof at the latest
OnToken(self) == self.current \in 0..(Len(self.tokens) - 1)

\* a declaration that starts at token q (counted from 0) of the tokens of self ends
\* after q, on a token
Consumes(self, q) ==
    LET after == declaration([self EXCEPT !.current = q]).self IN
    /\ after.current > q
    /\ OnToken(after)
    /\ after.tokens = self.tokens

\* C29: for every token vector that ends with its only Eof, parse terminates: an
\* iteration of the loop of parse, and of the loop of block (a declaration started at
\* any token but the Eof), consumes at least one token, the loop stops at the Eof,
\* and the cursor stays on a token, so that it never passes the Eof; previous() is only
\* reached after a token was consumed (a vector of the Eof alone is not advanced in).
C29_ParseTerminates ==
    [][stage = "parse" =>
          /\ OnToken(parser) /\ OnToken(parser')
          /\ parser'.tokens = parser.tokens
          /\ IF Parser_is_at_end(parser)
             THEN stage' # "parse" /\ parser' = parser
             ELSE /\ stage' = "parse"
                  /\ parser'.current > parser.current
                  /\ parser.current = 0 => ~Token_eq(previous(parser').token, Token_Eof)
          /\ \A q \in 0..(Len(parser.tokens) - 2) : Consumes(parser, q)]_vars

\* { ) 1 was parsed: the declaration inside the block failed at the second token,
\* synchronize went on to the Eof, the block failed there for its brace, and
\* synchronize advanced at the Eof; the loop of parse ended on the Eof
C29_Witness ==
    /\ input = [name |-> "tokens", a |-> <<"{", ")", "1">>, b |-> <<>>]
    /\ Done /\ ~result.ok
    /\ Len(parser.errors) = 2
    /\ parser.current = Len(parser.tokens) - 1

\* the columns of line 1 at which resolve reported VariableOwnInitializer
OwnInitializerAt ==
    IF stage # "done" \/ result.ok \/ result.panic THEN {}
    ELSE {result.e[i].e.location[2] :
              i \in {j \in 1..Len(result.e) : /\ result.e[j].k = "Resolve"
                                              /\ result.e[j].e.value = "VariableOwnInitializer"}}

\* C30: VariableOwnInitializer is reported for a read of a name only inside the
\* initializer of a var declaration of that name in the same scope: in
\* { var a = <reads a>; print a; } the read in the initializer is reported and the read
\* in the print statement after the declaration is not.
C30_OnlyInsideInitializer ==
    IsInput("later_read") /\ stage \in {"interpret", "done"}
        => stage = "done" /\ OwnInitializerAt = {50}

====
